---- MODULE Spec2Model ----
(***************************************************************************)
(* Geminya Discord Activity: the mini-game sessions (Anidle, Guess Anime,  *)
(* Guess Character, Guess Opening) as state machines.                      *)
(*                                                                         *)
(* The Anidle backend router (routers/anidle.py) is modelled from its      *)
(* source; handlers are asyncio coroutines, so a handler runs atomically   *)
(* between two awaits and other handlers may run at each await.            *)
(*                                                                         *)
(* The pages GuessOpening.tsx, GuessAnime.tsx and GuessCharacter.tsx are   *)
(* modelled from their source: an async handler is one step up to its      *)
(* await and one step from the response to the end of its finally block.   *)
(* The backends of these three games and the Candidate Sampler are not     *)
(* part of the sources; their operations follow the specification, and     *)
(* their responses carry the fields the pages read.                        *)
(***************************************************************************)
EXTENDS Integers, Sequences, FiniteSets, TLC

\* ------------------------------------------------------------------------
\* Bounds of the exploration
\* ------------------------------------------------------------------------
\* concurrent HTTP requests the Anidle backend has in flight
MaxInFlight == 2
\* guesses a single Anidle game dict is driven to (the budget is 21)
MaxGuessLen == 23
\* guesses per game whose name is the target's title (target or namesake)
MaxTitleHits == 1
\* guesses (applied or pending) a stored game may have when a start in the
\* same second replaces it under the same game_id
MaxRestartLen == 1
\* attempts the hints of one Anidle game may cost in all
MaxHintPenalty == 5

\* ------------------------------------------------------------------------
\* Anidle backend: data
\* ------------------------------------------------------------------------
\* Python's None, an unused heap cell, a missing dict key, no response yet
None == [tag |-> "None"]
Free == [tag |-> "Free"]
NoRef == 0
NoResponse == [status |-> 0, op |-> "none"]

\* the catalog behind JikanService: two entries share the title "A"
Anime ==
    { [id |-> 1, title |-> "A"],
      [id |-> 2, title |-> "A"],
      [id |-> 3, title |-> "B"] }

\* names a client may send as anime_name; "Z" names nothing
Names == {"A", "B", "Z"}

Users == {"u1"}
Difficulties == {"normal"}
\* int(time.time()) within one exploration
Times == {0}
GameIds == [user_id : Users, time : Times]
GameIdList == CHOOSE q \in [1..Cardinality(GameIds) -> GameIds] :
                 \A g \in GameIds : \E i \in DOMAIN q : q[i] = g

ObjRefs == 1..(Cardinality(GameIds) + MaxInFlight)

VARIABLES
    now,            \* int(time.time())
    games,          \* the module-level dict games: game_id -> reference
    heap,           \* the game dicts the references point to
    handlers,       \* the coroutines suspended at their await, in arrival order
                    \* (late: history, the game was complete on arrival)
    lastResponse,   \* the response (or HTTPException) last sent
    preCounts       \* history: len(guesses) each guess handler found, per dict

anidleVars == <<now, games, heap, handlers, lastResponse, preCounts>>

\* Guess Opening: the page (GuessOpening.tsx) and the guess-theme sessions
VARIABLES
    opSessions,     \* the guess-theme sessions of the backend, by game id
    opPage,         \* the page's React state
    opCall,         \* the request the page is waiting on
    opResponse,     \* the request the backend served last, and its response
    opSeenAtStage1  \* history: URLs the page received while at stage 1

opVars == <<opSessions, opPage, opCall, opResponse, opSeenAtStage1>>

\* Guess Anime: the page (GuessAnime.tsx) and the guess-anime sessions
VARIABLES
    gaSessions,     \* the guess-anime sessions of the backend, by game id
    gaPage,         \* the page's React state
    gaCall,         \* the request the page is waiting on
    gaResponse,     \* the request the backend served last, and its response
    gaRevealCalls   \* history: reveal_stage calls served, by game id

gaVars == <<gaSessions, gaPage, gaCall, gaResponse, gaRevealCalls>>

\* Guess Character: the page (GuessCharacter.tsx) and its sessions
VARIABLES
    gcSessions,     \* the guess-character sessions of the backend, by game id
    gcPage,         \* the page's React state
    gcCall,         \* the request the page is waiting on
    gcResponse      \* the request the backend served last, and its response

gcVars == <<gcSessions, gcPage, gcCall, gcResponse>>

\* Candidate Sampler: one call of sample()
VARIABLES
    smPhase,        \* "idle", "running" or "returned"
    smGameType,     \* the game type sample() was called for
    smDown,         \* the candidates whose id translation or asset lookup fails
    smValid,        \* the candidates of the catalog that meet the asset contract
    smRejected,     \* the candidates this call drew and rejected
    smAttempts,     \* the loop counter
    smResult        \* what the call returned

smVars == <<smPhase, smGameType, smDown, smValid, smRejected, smAttempts, smResult>>

\* Session Store: the sessions, their last touch and the expiry sweep
VARIABLES
    exNow,          \* the clock
    exStore,        \* session id -> NoSession or the time of the last touch
    exInFlight,     \* the ids a mutation is in flight for
    exSwept         \* the ids the step just taken removed
exVars == <<exNow, exStore, exInFlight, exSwept>>

\* Attribute Comparator: one comparison and its reverse
VARIABLES
    cmGuess,        \* the guess entity
    cmTarget,       \* the target entity
    cmForward,      \* compare(guess, target)
    cmBackward,     \* compare(target, guess)
    cmTags,         \* the tags of the guess, the tags of the target by tier
    cmTagResult     \* the tag verdicts of compare(guess, target)
cmVars == <<cmGuess, cmTarget, cmForward, cmBackward, cmTags, cmTagResult>>

\* Guess Character, four cards: the page and its one session per card
VARIABLES
    fcSessions,     \* the guess-character sessions of the cards, by game id
    fcPage,         \* the page's React state
    fcLoop,         \* makeGuess between two of its awaits: card, locals
    fcSent          \* history: the guess requests the page sent, per card
fcVars == <<fcSessions, fcPage, fcLoop, fcSent>>

\* Guess Anime, screenshots: the images of a target and the stages made of them
VARIABLES
    scAssets,       \* how many episode stills and backdrops the catalog returned
    scStages        \* the images of the four stages, or NotPlayable
scVars == <<scAssets, scStages>>

\* SearchInput (components/common/SearchInput.tsx) under one of the pages
VARIABLES
    siValue,            \* the prop value: the text of the input
    siSuggestions,      \* useState: suggestions
    siIsOpen,           \* useState: isOpen
    siIsLoading,        \* useState: isLoading
    siHighlightIndex,   \* useState: highlightIndex, -1 for none
    siTimer,            \* debounceRef: a timeout is pending
    siInFlight,         \* the onSearch calls awaited, in the order issued
    siIssued,           \* history: how many onSearch calls were issued
    siShown,            \* history: the call whose results were applied last
    siSelected,         \* history: a suggestion was selected, no edit since
    siEvent             \* history: the handler that ran last
siVars == <<siValue, siSuggestions, siIsOpen, siIsLoading, siHighlightIndex,
            siTimer, siInFlight, siIssued, siShown, siSelected, siEvent>>

\* Media URLs: a URL put through proxyMediaUrl for an element's src
VARIABLES
    pxUrl,          \* the url a render passes to proxyMediaUrl
    pxOnce,         \* proxyMediaUrl(url)
    pxTwice         \* proxyMediaUrl(proxyMediaUrl(url))
pxVars == <<pxUrl, pxOnce, pxTwice>>

vars == <<anidleVars, opVars, gaVars, gcVars, smVars, exVars, cmVars, fcVars, scVars,
          siVars, pxVars>>

\* what the actions of one component leave alone
notAnidle == <<opVars, gaVars, gcVars, smVars, exVars, cmVars, fcVars, scVars,
    siVars, pxVars>>
notOpening == <<anidleVars, gaVars, gcVars, smVars, exVars, cmVars, fcVars, scVars,
    siVars, pxVars>>
notGuessAnime == <<anidleVars, opVars, gcVars, smVars, exVars, cmVars, fcVars, scVars,
    siVars, pxVars>>
notGuessCharacter == <<anidleVars, opVars, gaVars, smVars, exVars, cmVars, fcVars, scVars,
    siVars, pxVars>>
notSampler == <<anidleVars, opVars, gaVars, gcVars, exVars, cmVars, fcVars, scVars,
    siVars, pxVars>>
notStore == <<anidleVars, opVars, gaVars, gcVars, smVars, cmVars, fcVars, scVars,
    siVars, pxVars>>
notComparator == <<anidleVars, opVars, gaVars, gcVars, smVars, exVars, fcVars, scVars,
    siVars, pxVars>>
notFourCards == <<anidleVars, opVars, gaVars, gcVars, smVars, exVars, cmVars, scVars,
    siVars, pxVars>>
notScreenshots == <<anidleVars, opVars, gaVars, gcVars, smVars, exVars, cmVars, fcVars,
    siVars, pxVars>>
notSearchInput == <<anidleVars, opVars, gaVars, gcVars, smVars, exVars, cmVars, fcVars,
    scVars, pxVars>>
notMediaUrls == <<anidleVars, opVars, gaVars, gcVars, smVars, exVars, cmVars, fcVars,
    scVars, siVars>>

\* ------------------------------------------------------------------------
\* Anidle backend: helpers
\* ------------------------------------------------------------------------
\* jikan.search_anime(name): the first entry of that title, or None
search_anime(name) ==
    IF \E a \in Anime : a.title = name
    THEN CHOOSE a \in Anime :
            a.title = name /\ \A b \in Anime : b.title = name => a.id <= b.id
    ELSE None

\* jikan.get_random_anime(difficulty): any entry, or None on failure
RandomResults == Anime \cup {None}

\* compare_anime(guess, target): only the title column is needed here
compare_anime(guess, target) ==
    [title |-> IF guess.title = target.title THEN "exact" ELSE "no-match"]

\* game_id = f"{user_id}_{int(time.time())}"
MakeGameId(user_id, t) == [user_id |-> user_id, time |-> t]

\* the dict start_game stores
NewGame(target, difficulty) ==
    [target |-> target,
     guesses |-> <<>>,
     max_guesses |-> 21,
     is_complete |-> FALSE,
     is_won |-> FALSE,
     hint_penalty |-> 0,
     difficulty |-> difficulty]

\* the body of the start response
StartResponse(game_id) ==
    [status |-> 200, op |-> "start", game_id |-> game_id, max_guesses |-> 21]

\* slip: the win is decided on the title, not on the id
WinCheck_byTitle(guess, target) == guess.title = target.title

\* if guess["id"] == game["target"]["id"]
WinCheck(guess, target) == guess.id = target.id

\* slip: > for >=, the game is lost one guess late
LoseCheck_late(game) == Len(game.guesses) + game.hint_penalty > game.max_guesses

\* elif len(game["guesses"]) + game["hint_penalty"] >= game["max_guesses"]
LoseCheck(game) == Len(game.guesses) + game.hint_penalty >= game.max_guesses

\* "guesses_remaining": max_guesses - len(guesses) - hint_penalty
Remaining(game) == game.max_guesses - Len(game.guesses) - game.hint_penalty

\* the body of make_guess after the await: append, then check win/lose
ApplyGuess(game, guess) ==
    LET comparison == compare_anime(guess, game.target)
        g1 == [game EXCEPT !.guesses =
                  Append(@, [guess |-> guess, comparison |-> comparison])]
    IN  IF WinCheck(guess, g1.target)
        THEN [g1 EXCEPT !.is_won = TRUE, !.is_complete = TRUE]
        ELSE IF LoseCheck(g1)
             THEN [g1 EXCEPT !.is_complete = TRUE]
             ELSE g1

\* the answer to a guess with the target put in
GuessResponse_withTarget(game, guess) ==
    [status |-> 200, op |-> "guess",
     comparison |-> compare_anime(guess, game.target),
     is_won |-> game.is_won,
     is_complete |-> game.is_complete,
     guesses_remaining |-> Remaining(game),
     target |-> game.target]

GuessResponse(game, guess) ==
    [status |-> 200, op |-> "guess",
     comparison |-> compare_anime(guess, game.target),
     is_won |-> game.is_won,
     is_complete |-> game.is_complete,
     guesses_remaining |-> Remaining(game)]

HttpError(code, op) == [status |-> code, op |-> op]

\* --- Python object references: the dict a coroutine took before its await
\* --- stays alive, and is the same object, after games[game_id] is reassigned
RemoveAt(q, i) == [j \in 1..(Len(q) - 1) |-> IF j < i THEN q[j] ELSE q[j + 1]]

\* the references held, the games dict first, then the coroutines in order
RefList(gs, hs) ==
    [i \in 1..(Len(GameIdList) + Len(hs)) |->
        IF i <= Len(GameIdList) THEN gs[GameIdList[i]]
        ELSE IF hs[i - Len(GameIdList)].op = "guess"
             THEN hs[i - Len(GameIdList)].game
             ELSE NoRef]

\* the number a reference gets when cells are numbered by first use
Rank(r, L) ==
    LET first == CHOOSE i \in DOMAIN L : L[i] = r /\ \A j \in 1..(i - 1) : L[j] # r
    IN  Cardinality({L[j] : j \in 1..first} \ {NoRef})

Held(L) == {L[i] : i \in DOMAIN L} \ {NoRef}

\* drop the dicts nothing refers to and renumber the others by first use
CanonHeap(hp, L, free) ==
    [k \in ObjRefs |->
        IF \E r \in Held(L) : Rank(r, L) = k
        THEN hp[CHOOSE r \in Held(L) : Rank(r, L) = k]
        ELSE free]

CanonGames(gs, L) ==
    [g \in GameIds |-> IF gs[g] = NoRef THEN NoRef ELSE Rank(gs[g], L)]

CanonHandlers(hs, L) ==
    [i \in DOMAIN hs |->
        IF hs[i].op = "guess" THEN [hs[i] EXCEPT !.game = Rank(@, L)] ELSE hs[i]]

\* the next state of the store, the heap and the suspended coroutines
Commit(gs, hp, hs, pc) ==
    LET L == RefList(gs, hs)
    IN  /\ games' = CanonGames(gs, L)
        /\ heap' = CanonHeap(hp, L, Free)
        /\ preCounts' = CanonHeap(pc, L, <<>>)
        /\ handlers' = CanonHandlers(hs, L)

FreeRef == CHOOSE r \in ObjRefs : heap[r] = Free

\* guesses of a dict whose title is the target's title
TitleHits(game) ==
    Cardinality({i \in 1..Len(game.guesses) :
                    game.guesses[i].guess.title = game.target.title})

PendingOn(r) ==
    {i \in DOMAIN handlers : handlers[i].op = "guess" /\ handlers[i].game = r}

PendingHitsOn(r) ==
    {i \in PendingOn(r) : handlers[i].anime_name = heap[r].target.title}

StartPending == \E i \in DOMAIN handlers : handlers[i].op = "start"

\* ------------------------------------------------------------------------
\* Anidle backend: actions
\* ------------------------------------------------------------------------
AnidleInit ==
    /\ now = 0
    /\ games = [g \in GameIds |-> NoRef]
    /\ heap = [r \in ObjRefs |-> Free]
    /\ handlers = <<>>
    /\ lastResponse = NoResponse
    /\ preCounts = [r \in ObjRefs |-> <<>>]

\* POST /start arrives: start_game runs up to `await jikan.get_random_anime`
StartBegin(user_id, difficulty) ==
    /\ Len(handlers) < MaxInFlight
    /\ LET r == games[MakeGameId(user_id, now)]
       IN  r # NoRef =>
              Len(heap[r].guesses) + Cardinality(PendingOn(r)) <= MaxRestartLen
    /\ handlers' = Append(handlers,
                     [op |-> "start", user_id |-> user_id, difficulty |-> difficulty])
    /\ UNCHANGED <<now, games, heap, lastResponse, preCounts>>
    /\ UNCHANGED notAnidle

\* the test of the sampled target left out
StartFails_never(target) == FALSE

\* if not target: raise HTTPException(status_code=500, ...)
StartFails(target) == target = None

\* get_random_anime returns: 500 when it found nothing, else the game is stored
StartFinish(i, target) ==
    /\ i \in DOMAIN handlers
    /\ handlers[i].op = "start"
    /\ UNCHANGED notAnidle
    /\ LET req == handlers[i]
           hs == RemoveAt(handlers, i)
       IN  IF StartFails(target)
           THEN /\ lastResponse' = HttpError(500, "start")
                /\ handlers' = hs
                /\ UNCHANGED <<now, games, heap, preCounts>>
           ELSE LET game_id == MakeGameId(req.user_id, now)
                    r == FreeRef
                IN  /\ Commit([games EXCEPT ![game_id] = r],
                              [heap EXCEPT ![r] = NewGame(target, req.difficulty)],
                              hs, preCounts)
                    /\ lastResponse' = StartResponse(game_id)
                    /\ UNCHANGED now

\* a well-formed game id no start has ever returned
StrayIds == {[user_id |-> "u1", time |-> 1]}
RequestIds == GameIds \cup StrayIds

\* games.get(game_id): the dict stored under the id, if any
Stored(game_id) == IF game_id \in GameIds THEN games[game_id] ELSE NoRef

\* the unknown id answered 404 and a game stored under it all the same
GuessNotFound_creates(game_id) ==
    /\ Stored(game_id) = NoRef
    /\ game_id \in GameIds
    /\ lastResponse' = HttpError(404, "guess")
    /\ \E t \in Anime :
          Commit([games EXCEPT ![game_id] = FreeRef],
                 [heap EXCEPT ![FreeRef] = NewGame(t, "normal")],
                 handlers, preCounts)
    /\ UNCHANGED now
    /\ UNCHANGED notAnidle

\* POST /guess arrives for an unknown game_id: 404 before any await
GuessNotFound(game_id) ==
    /\ Stored(game_id) = NoRef
    /\ lastResponse' = HttpError(404, "guess")
    /\ UNCHANGED <<now, games, heap, handlers, preCounts>>
    /\ UNCHANGED notAnidle

\* POST /guess arrives: make_guess takes the dict and awaits jikan.search_anime
GuessBegin(game_id, anime_name) ==
    /\ Len(handlers) < MaxInFlight
    /\ games[game_id] # NoRef
    /\ LET r == games[game_id]
           busy == Len(heap[r].guesses) + Cardinality(PendingOn(r))
       IN  /\ busy < MaxGuessLen
           /\ StartPending => busy < MaxRestartLen
           /\ anime_name = heap[r].target.title =>
                 TitleHits(heap[r]) + Cardinality(PendingHitsOn(r)) < MaxTitleHits
           /\ handlers' = Append(handlers,
                            [op |-> "guess", game |-> r, anime_name |-> anime_name,
                             late |-> heap[r].is_complete])
    /\ UNCHANGED <<now, games, heap, lastResponse, preCounts>>
    /\ UNCHANGED notAnidle

\* search_anime returns: 400 when nothing was found, else the guess is applied
GuessFinish(i) ==
    /\ i \in DOMAIN handlers
    /\ handlers[i].op = "guess"
    /\ UNCHANGED notAnidle
    /\ LET r == handlers[i].game
           guess == search_anime(handlers[i].anime_name)
           hs == RemoveAt(handlers, i)
       IN  IF guess = None
           THEN /\ lastResponse' = HttpError(400, "guess")
                /\ Commit(games, heap, hs, preCounts)
                /\ UNCHANGED now
           ELSE LET game == ApplyGuess(heap[r], guess)
                IN  /\ Commit(games, [heap EXCEPT ![r] = game], hs,
                              [preCounts EXCEPT ![r] = Append(@, Len(heap[r].guesses))])
                    /\ lastResponse' = GuessResponse(game, guess)
                    /\ UNCHANGED now

\* the kinds of hint and the attempts each costs
HintKinds == {"minor", "major"}
HintCost(kind) == IF kind = "minor" THEN 2 ELSE 5

\* a domain error of the hint and give-up endpoints
Rejected(op, detail) == [status |-> 400, op |-> op, detail |-> detail]

\* the hint taken without the game ending when no attempt is left
ApplyHint_staysOpen(game, kind) ==
    [game EXCEPT !.hint_penalty = @ + HintCost(kind)]

\* hint(kind): the cost is added to hint_penalty, no guess record is added,
\* and the game is complete (lost) when no attempt is left
ApplyHint(game, kind) ==
    LET g1 == [game EXCEPT !.hint_penalty = @ + HintCost(kind)]
    IN  IF Remaining(g1) <= 0 THEN [g1 EXCEPT !.is_complete = TRUE] ELSE g1

\* POST /{game_id}/hint
Hint(game_id, kind) ==
    /\ LET r == Stored(game_id)
       IN  IF r = NoRef
           THEN lastResponse' = HttpError(404, "hint") /\ UNCHANGED heap
           ELSE IF heap[r].is_complete
           THEN /\ lastResponse' = Rejected("hint", "SessionAlreadyComplete")
                /\ UNCHANGED heap
           ELSE IF HintCost(kind) > Remaining(heap[r])
           THEN /\ lastResponse' = Rejected("hint", "AttemptsExhausted")
                /\ UNCHANGED heap
           ELSE /\ heap[r].hint_penalty + HintCost(kind) <= MaxHintPenalty
                /\ heap' = [heap EXCEPT ![r] = ApplyHint(@, kind)]
                /\ lastResponse' =
                      [status |-> 200, op |-> "hint", hint_type |-> kind,
                       is_complete |-> ApplyHint(heap[r], kind).is_complete,
                       guesses_remaining |-> Remaining(ApplyHint(heap[r], kind))]
    /\ UNCHANGED <<now, games, handlers, preCounts>>
    /\ UNCHANGED notAnidle

\* POST /{game_id}/giveup
GiveUp(game_id) ==
    /\ LET r == Stored(game_id)
       IN  IF r = NoRef
           THEN lastResponse' = HttpError(404, "giveup") /\ UNCHANGED heap
           ELSE IF heap[r].is_complete
           THEN /\ lastResponse' = Rejected("giveup", "SessionAlreadyComplete")
                /\ UNCHANGED heap
           ELSE /\ heap' = [heap EXCEPT ![r].is_complete = TRUE, ![r].is_won = FALSE]
                /\ lastResponse' =
                      [status |-> 200, op |-> "giveup", target |-> heap[r].target]
    /\ UNCHANGED <<now, games, handlers, preCounts>>
    /\ UNCHANGED notAnidle

AnidleNext ==
    \/ \E u \in Users, d \in Difficulties : StartBegin(u, d)
    \/ \E i \in 1..MaxInFlight, t \in RandomResults : StartFinish(i, t)
    \/ \E g \in GameIds : GuessNotFound(g)
    \/ \E g \in GameIds, n \in Names : GuessBegin(g, n)
    \/ \E i \in 1..MaxInFlight : GuessFinish(i)

\* ------------------------------------------------------------------------
\* Text: strings are sequences of characters
\* ------------------------------------------------------------------------
\* String.prototype.trim()
RECURSIVE TrimLeft(_)
TrimLeft(str) ==
    IF str # <<>> /\ Head(str) = " " THEN TrimLeft(Tail(str)) ELSE str

RECURSIVE TrimRight(_)
TrimRight(str) ==
    IF str # <<>> /\ str[Len(str)] = " "
    THEN TrimRight(SubSeq(str, 1, Len(str) - 1))
    ELSE str

Trim(str) == TrimRight(TrimLeft(str))

LowerChar(c) == IF c = "A" THEN "a" ELSE IF c = "B" THEN "b" ELSE c

\* normalized matching of names: case- and whitespace-insensitive
Normalize(str) == LET t == Trim(str) IN [i \in 1..Len(t) |-> LowerChar(t[i])]

\* names of catalog entities as a player may type them
EntityNames == { <<" ", "A">>, <<"b">> }

\* what a player may have typed into a name field
NameInputs == EntityNames \cup { <<" ">> }

\* ------------------------------------------------------------------------
\* Media URLs (utils/mediaProxy.ts)
\* ------------------------------------------------------------------------
\* a string value holds the sequence of its characters; a code unit that is
\* half of a surrogate pair, standing alone, is the one character "U+D800"
\* JavaScript's null (undefined is None)
Null == [tag |-> "null"]
Str(chars) == [str |-> chars]
EmptyString == Str(<<>>)
LoneSurrogate == "U+D800"

ProxyPrefix == <<"/", "a", "p", "i", "/", "m", "e", "d", "i", "a", "/", "p", "r", "o", "x", "y">>
DataPrefix == <<"d", "a", "t", "a", ":">>
DiscordCdn == <<"c", "d", "n", ".", "d", "i", "s", "c", "o", "r", "d", "a", "p", "p", ".", "c", "o", "m">>
DiscordMedia == <<"m", "e", "d", "i", "a", ".", "d", "i", "s", "c", "o", "r", "d", "a", "p", "p", ".", "n", "e", "t">>
ProxyQuery == <<"?", "u", "r", "l", "=">>

\* String.prototype.startsWith, String.prototype.includes
startsWith(str, prefix) ==
    Len(str) >= Len(prefix) /\ SubSeq(str, 1, Len(prefix)) = prefix
includes(str, part) ==
    \E i \in 0..(Len(str) - Len(part)) : SubSeq(str, i + 1, i + Len(part)) = part

\* encodeURIComponent throws URIError on a lone surrogate (proxyMediaUrl
\* does not catch it); on any other string it keeps letters,
\* digits and - _ . ! ~ * ' ( ) and writes every other character as the %XX
\* of its UTF-8 bytes
URIError == [throws |-> "URIError"]
EncodeChar(c) ==
    CASE c = "/" -> <<"%", "2", "F">>
      [] c = ":" -> <<"%", "3", "A">>
      [] c = "?" -> <<"%", "3", "F">>
      [] c = "=" -> <<"%", "3", "D">>
      [] c = "%" -> <<"%", "2", "5">>
      [] OTHER -> <<c>>
RECURSIVE EncodeAll(_)
EncodeAll(str) ==
    IF str = <<>> THEN <<>> ELSE EncodeChar(Head(str)) \o EncodeAll(Tail(str))
encodeURIComponent(str) == EncodeAll(str)

\* proxyMediaUrl(url)
proxyMediaUrl(url) ==
    IF url = Null \/ url = None \/ url = EmptyString THEN EmptyString
    ELSE IF startsWith(url.str, ProxyPrefix) \/ startsWith(url.str, DataPrefix)
    THEN url
    ELSE IF includes(url.str, DiscordCdn) \/ includes(url.str, DiscordMedia)
    THEN url
    ELSE IF \E i \in DOMAIN url.str : url.str[i] = LoneSurrogate THEN URIError
    ELSE Str(ProxyPrefix \o ProxyQuery \o encodeURIComponent(url.str))

\* ------------------------------------------------------------------------
\* Guess Opening: the guess-theme backend (Media-Staged-Reveal sessions)
\* ------------------------------------------------------------------------
MaxGames == 1
SessionIds == 1..MaxGames
OpMaxStage == 2

NoSession == [tag |-> "NoSession"]
NoCall == [op |-> "none"]
NothingServed == [request |-> NoCall, response |-> NoCall]
Failed == [tag |-> "Failed"]

\* what the sampler can deliver: an anime with one theme asset
OpTargets ==
    { [title |-> <<"a">>,
       theme |-> [slug |-> "OP1", title |-> "song-a", artist |-> "artist-a",
                  url |-> Str(<<"h", "t", "t", "p", "s", ":", "/", "/", "v", "/", "a">>)]],
      [title |-> <<"b">>,
       theme |-> [slug |-> "OP1", title |-> "song-b", artist |-> "artist-b",
                  url |-> Str(<<"h", "t", "t", "p", "s", ":", "/", "/", "v", "/", "b">>)]] }

OpError(code) == [ok |-> FALSE, error |-> code]

\* the id the next session gets, 0 when the store is full
FreshId(sessions) ==
    IF \E i \in SessionIds : sessions[i] = NoSession
    THEN CHOOSE i \in SessionIds : sessions[i] = NoSession
                               /\ \A j \in SessionIds : sessions[j] = NoSession => i <= j
    ELSE 0

\* start: a sampled target opens a session at stage 1; the response carries
\* the fields the page reads (game_id, theme_type, theme_slug, theme_url,
\* current_stage, max_stage)
OpServeStart(sessions, sample) ==
    IF sample = None THEN [sessions |-> sessions, response |-> OpError("SamplingExhausted")]
    ELSE LET id == FreshId(sessions)
             session == [target |-> sample, current_stage |-> 1,
                         is_complete |-> FALSE, is_won |-> FALSE]
         IN  [sessions |-> [sessions EXCEPT ![id] = session],
              response |-> [ok |-> TRUE, op |-> "start", game_id |-> id,
                            theme_type |-> "OP",
                            theme_slug |-> sample.theme.slug,
                            theme_url |-> sample.theme.url,
                            current_stage |-> 1, max_stage |-> OpMaxStage]]

\* reveal: audio -> video
OpServeReveal(sessions, id) ==
    IF id \notin SessionIds \/ sessions[id] = NoSession
    THEN [sessions |-> sessions, response |-> OpError("SessionNotFound")]
    ELSE IF sessions[id].is_complete
    THEN [sessions |-> sessions, response |-> OpError("SessionAlreadyComplete")]
    ELSE IF sessions[id].current_stage >= OpMaxStage
    THEN [sessions |-> sessions, response |-> OpError("AttemptsExhausted")]
    ELSE [sessions |-> [sessions EXCEPT ![id].current_stage = @ + 1],
          response |-> [ok |-> TRUE, op |-> "reveal",
                        current_stage |-> sessions[id].current_stage + 1]]

\* the guess turned away once the video is revealed
OpServeGuess_firstStageOnly(sessions, id, animeName) ==
    IF id \notin SessionIds \/ sessions[id] = NoSession
    THEN [sessions |-> sessions, response |-> OpError("SessionNotFound")]
    ELSE IF sessions[id].is_complete
    THEN [sessions |-> sessions, response |-> OpError("SessionAlreadyComplete")]
    ELSE IF sessions[id].current_stage > 1
    THEN [sessions |-> sessions, response |-> OpError("AttemptsExhausted")]
    ELSE LET won == Normalize(animeName) = Normalize(sessions[id].target.title)
         IN  [sessions |-> [sessions EXCEPT ![id].is_complete = TRUE,
                                           ![id].is_won = won],
              response |-> [ok |-> TRUE, op |-> "guess",
                            is_complete |-> TRUE, is_won |-> won,
                            target |-> [title |-> sessions[id].target.title],
                            theme |-> [slug |-> sessions[id].target.theme.slug,
                                       title |-> sessions[id].target.theme.title,
                                       artist |-> sessions[id].target.theme.artist]]]

\* guess(animeName): the single attempt, at any stage
OpServeGuess(sessions, id, animeName) ==
    IF id \notin SessionIds \/ sessions[id] = NoSession
    THEN [sessions |-> sessions, response |-> OpError("SessionNotFound")]
    ELSE IF sessions[id].is_complete
    THEN [sessions |-> sessions, response |-> OpError("SessionAlreadyComplete")]
    ELSE LET won == Normalize(animeName) = Normalize(sessions[id].target.title)
         IN  [sessions |-> [sessions EXCEPT ![id].is_complete = TRUE,
                                           ![id].is_won = won],
              response |-> [ok |-> TRUE, op |-> "guess",
                            is_complete |-> TRUE, is_won |-> won,
                            target |-> [title |-> sessions[id].target.title],
                            theme |-> [slug |-> sessions[id].target.theme.slug,
                                       title |-> sessions[id].target.theme.title,
                                       artist |-> sessions[id].target.theme.artist]]]

\* giveUp: lost, the target and the theme are revealed
OpServeGiveUp(sessions, id) ==
    IF id \notin SessionIds \/ sessions[id] = NoSession
    THEN [sessions |-> sessions, response |-> OpError("SessionNotFound")]
    ELSE IF sessions[id].is_complete
    THEN [sessions |-> sessions, response |-> OpError("SessionAlreadyComplete")]
    ELSE [sessions |-> [sessions EXCEPT ![id].is_complete = TRUE,
                                       ![id].is_won = FALSE],
          response |-> [ok |-> TRUE, op |-> "giveup",
                        target |-> [title |-> sessions[id].target.title],
                        theme |-> [slug |-> sessions[id].target.theme.slug,
                                   title |-> sessions[id].target.theme.title,
                                   artist |-> sessions[id].target.theme.artist]]]

\* the backend handling one request
OpServe(sessions, call, sample) ==
    CASE call.op = "start"  -> OpServeStart(sessions, sample)
      [] call.op = "reveal" -> OpServeReveal(sessions, call.gameId)
      [] call.op = "guess"  -> OpServeGuess(sessions, call.gameId, call.animeName)
      [] call.op = "giveup" -> OpServeGiveUp(sessions, call.gameId)

\* the media URLs a response carries
UrlsIn(response) ==
    IF response.ok /\ response.op = "start" THEN {response.theme_url} ELSE {}

\* ------------------------------------------------------------------------
\* Guess Opening: the page (pages/GuessOpening.tsx)
\* ------------------------------------------------------------------------
\* "Game complete screen": gameState.isComplete && gameState.target
OpCompleteScreen(page) ==
    page.gameState # Null /\ page.gameState.isComplete /\ page.gameState.target # None

\* "Active game screen"
OpActiveScreen(page) == page.gameState # Null /\ ~OpCompleteScreen(page)

\* the media player of the active screen: <audio> at stage 1, else <video>
OpMediaPlayer(gameState) ==
    [element |-> IF gameState.currentStage = 1 THEN "audio" ELSE "video",
     src |-> proxyMediaUrl(gameState.themeUrl)]

OpInit ==
    /\ opSessions = [i \in SessionIds |-> NoSession]
    /\ opPage = [isLoading |-> FALSE, gameState |-> Null,
                 animeName |-> <<>>, error |-> None]
    /\ opCall = NoCall
    /\ opResponse = NothingServed
    /\ opSeenAtStage1 = {}

\* the SearchInput's onChange / onSelect: setAnimeName
OpSetAnimeName(value) ==
    /\ OpActiveScreen(opPage)
    /\ opPage.animeName # value
    /\ opPage' = [opPage EXCEPT !.animeName = value]
    /\ UNCHANGED <<opSessions, opCall, opResponse, opSeenAtStage1>>
    /\ UNCHANGED notOpening

\* startGame up to its await
OpStartGame ==
    /\ opPage.gameState = Null
    /\ ~opPage.isLoading
    /\ FreshId(opSessions) # 0
    /\ opPage' = [opPage EXCEPT !.isLoading = TRUE, !.error = None]
    /\ opCall' = [op |-> "start"]
    /\ UNCHANGED <<opSessions, opResponse, opSeenAtStage1>>
    /\ UNCHANGED notOpening

\* makeGuess up to its await
OpMakeGuess ==
    /\ OpActiveScreen(opPage)
    /\ ~opPage.isLoading
    /\ Trim(opPage.animeName) # <<>>
    /\ opPage' = [opPage EXCEPT !.isLoading = TRUE, !.error = None]
    /\ opCall' = [op |-> "guess", gameId |-> opPage.gameState.gameId,
                  animeName |-> opPage.animeName]
    /\ UNCHANGED <<opSessions, opResponse, opSeenAtStage1>>
    /\ UNCHANGED notOpening

\* revealHint up to its await (the button shows while currentStage < maxStage)
OpRevealHint ==
    /\ OpActiveScreen(opPage)
    /\ ~opPage.isLoading
    /\ opPage.gameState.currentStage < opPage.gameState.maxStage
    /\ opPage' = [opPage EXCEPT !.isLoading = TRUE]
    /\ opCall' = [op |-> "reveal", gameId |-> opPage.gameState.gameId]
    /\ UNCHANGED <<opSessions, opResponse, opSeenAtStage1>>
    /\ UNCHANGED notOpening

\* giveUp up to its await
OpGiveUp ==
    /\ OpActiveScreen(opPage)
    /\ ~opPage.isLoading
    /\ opPage' = [opPage EXCEPT !.isLoading = TRUE]
    /\ opCall' = [op |-> "giveup", gameId |-> opPage.gameState.gameId]
    /\ UNCHANGED <<opSessions, opResponse, opSeenAtStage1>>
    /\ UNCHANGED notOpening

\* giveUp keeping the fields of the response to itself
OpApplyResponse_giveUpKeeps(page, call, response) ==
    CASE call.op = "start" ->
            [page EXCEPT
                !.gameState = [gameId |-> response.game_id,
                               themeType |-> response.theme_type,
                               themeSlug |-> response.theme_slug,
                               themeUrl |-> response.theme_url,
                               currentStage |-> response.current_stage,
                               maxStage |-> response.max_stage,
                               isComplete |-> FALSE, isWon |-> FALSE,
                               target |-> None, theme |-> None],
                !.animeName = <<>>]
      [] call.op = "guess" ->
            IF page.gameState = Null THEN page
            ELSE [page EXCEPT !.gameState.isComplete = response.is_complete,
                              !.gameState.isWon = response.is_won,
                              !.gameState.target = response.target,
                              !.gameState.theme = response.theme]
      [] call.op = "reveal" ->
            IF page.gameState = Null THEN page
            ELSE [page EXCEPT !.gameState.currentStage = response.current_stage]
      [] call.op = "giveup" ->
            IF page.gameState = Null THEN page
            ELSE [page EXCEPT !.gameState.isComplete = TRUE,
                              !.gameState.isWon = FALSE]

\* the state update of each handler once its response is there
OpApplyResponse(page, call, response) ==
    CASE call.op = "start" ->
            [page EXCEPT
                !.gameState = [gameId |-> response.game_id,
                               themeType |-> response.theme_type,
                               themeSlug |-> response.theme_slug,
                               themeUrl |-> response.theme_url,
                               currentStage |-> response.current_stage,
                               maxStage |-> response.max_stage,
                               isComplete |-> FALSE, isWon |-> FALSE,
                               target |-> None, theme |-> None],
                !.animeName = <<>>]
      [] call.op = "guess" ->
            IF page.gameState = Null THEN page
            ELSE [page EXCEPT !.gameState.isComplete = response.is_complete,
                              !.gameState.isWon = response.is_won,
                              !.gameState.target = response.target,
                              !.gameState.theme = response.theme]
      [] call.op = "reveal" ->
            IF page.gameState = Null THEN page
            ELSE [page EXCEPT !.gameState.currentStage = response.current_stage]
      [] call.op = "giveup" ->
            IF page.gameState = Null THEN page
            ELSE [page EXCEPT !.gameState.isComplete = TRUE,
                              !.gameState.isWon = FALSE,
                              !.gameState.target = response.target,
                              !.gameState.theme = response.theme]

\* the awaited request ends: the backend handles it and the handler resumes,
\* in its try branch on a 2xx answer, in its catch branch otherwise, and in
\* finally sets isLoading to false
OpFinish(sample, delivered) ==
    /\ opCall # NoCall
    /\ UNCHANGED notOpening
    /\ LET served == OpServe(opSessions, opCall, sample)
           response == served.response
       IN  /\ opSessions' = served.sessions
           /\ opResponse' = [request |-> opCall, response |-> response]
           /\ opCall' = NoCall
           /\ IF response.ok /\ delivered
              THEN /\ opPage' = [OpApplyResponse(opPage, opCall, response)
                                    EXCEPT !.isLoading = FALSE]
                   /\ opSeenAtStage1' =
                         IF opCall.op = "start" THEN UrlsIn(response)
                         ELSE IF opPage.gameState # Null
                                 /\ opPage.gameState.currentStage = 1
                                 /\ opCall.op # "reveal"
                              THEN opSeenAtStage1 \cup UrlsIn(response)
                              ELSE opSeenAtStage1
              ELSE /\ opPage' = [opPage EXCEPT !.isLoading = FALSE,
                                              !.error = Failed]
                   /\ UNCHANGED opSeenAtStage1

\* "Play Again" on the complete screen
OpPlayAgain ==
    /\ OpCompleteScreen(opPage)
    /\ opPage' = [opPage EXCEPT !.gameState = Null, !.animeName = <<>>]
    /\ UNCHANGED <<opSessions, opCall, opResponse, opSeenAtStage1>>
    /\ UNCHANGED notOpening

\* another client of the API sends a request of its own
OpDirectCall(call) ==
    /\ call.op # "start"
    /\ LET served == OpServe(opSessions, call, None)
       IN  /\ opSessions' = served.sessions
           /\ opResponse' = [request |-> call, response |-> served.response]
    /\ UNCHANGED <<opPage, opCall, opSeenAtStage1>>
    /\ UNCHANGED notOpening

OpNext ==
    \/ \E v \in NameInputs : OpSetAnimeName(v)
    \/ OpStartGame
    \/ OpMakeGuess
    \/ OpRevealHint
    \/ OpGiveUp
    \/ \E t \in OpTargets \cup {None}, d \in BOOLEAN : OpFinish(t, d)
    \/ OpPlayAgain
    \/ \E c \in ([op : {"reveal", "giveup"}, gameId : SessionIds]
          \cup [op : {"guess"}, gameId : SessionIds, animeName : EntityNames]) :
          OpDirectCall(c)

\* ------------------------------------------------------------------------
\* Guess Anime: the guess-anime backend (Staged-Reveal sessions)
\* ------------------------------------------------------------------------
\* four image stages and the name-hint stage
GaImageStages == 4
GaTotalStages == 5

\* reveal_stage calls are counted up to this number
MaxRevealCalls == 6

Min(a, b) == IF a <= b THEN a ELSE b

\* what the sampler can deliver: an anime with four screenshots
GaTargets ==
    { [title |-> <<"a">>,
       screenshots |-> [i \in 1..GaImageStages |->
                           [kind |-> "external", file |-> "a", index |-> i]]],
      [title |-> <<"b">>,
       screenshots |-> [i \in 1..GaImageStages |->
                           [kind |-> "external", file |-> "b", index |-> i]]] }

\* the image on display at a stage: the name-hint stage keeps the last image
GaScreenshot(session, stage) == session.target.screenshots[Min(stage, GaImageStages)]

\* the name hint of the last stage: the title with its letters masked
GaNameHint(session) ==
    IF session.name_hint_revealed
    THEN [title |-> [i \in DOMAIN session.target.title |-> "_"]]
    ELSE None

\* the state of the stages, as every stage response reports it
GaStageState(session) ==
    [ok |-> TRUE, op |-> "stage",
     revealed_stages |-> session.revealed_stages,
     current_stage |-> session.current_stage,
     current_screenshot |-> GaScreenshot(session, session.current_stage),
     name_hint_revealed |-> session.name_hint_revealed,
     name_hint |-> GaNameHint(session)]

\* start: samples target and assets, reveals stage 1, one attempt
GaServeStart(sessions, sample) ==
    IF sample = None THEN [sessions |-> sessions, response |-> OpError("SamplingExhausted")]
    ELSE LET id == FreshId(sessions)
             session == [target |-> sample, revealed_stages |-> 1,
                         current_stage |-> 1, name_hint_revealed |-> FALSE,
                         attempts_remaining |-> 1, guesses |-> <<>>,
                         is_complete |-> FALSE, is_won |-> FALSE]
         IN  [sessions |-> [sessions EXCEPT ![id] = session],
              response |-> [ok |-> TRUE, op |-> "start", game_id |-> id,
                            current_screenshot |-> GaScreenshot(session, 1),
                            total_stages |-> GaTotalStages,
                            revealed_stages |-> 1, current_stage |-> 1,
                            name_hint_revealed |-> FALSE, name_hint |-> None,
                            attempts_remaining |-> 1]]

\* revealStage without the bound on the stage pointer
GaServeReveal_unbounded(sessions, id) ==
    IF id \notin SessionIds \/ sessions[id] = NoSession
    THEN [sessions |-> sessions, response |-> OpError("SessionNotFound")]
    ELSE IF sessions[id].is_complete
    THEN [sessions |-> sessions, response |-> OpError("SessionAlreadyComplete")]
    ELSE LET next == sessions[id].revealed_stages + 1
             session == [sessions[id] EXCEPT
                            !.revealed_stages = next,
                            !.current_stage = next,
                            !.name_hint_revealed = (next >= GaTotalStages)]
         IN  [sessions |-> [sessions EXCEPT ![id] = session],
              response |-> GaStageState(session)]

\* revealStage: advances the stage pointer by one; with every stage revealed
\* it changes nothing and returns the current state
GaServeReveal(sessions, id) ==
    IF id \notin SessionIds \/ sessions[id] = NoSession
    THEN [sessions |-> sessions, response |-> OpError("SessionNotFound")]
    ELSE IF sessions[id].is_complete
    THEN [sessions |-> sessions, response |-> OpError("SessionAlreadyComplete")]
    ELSE IF sessions[id].revealed_stages >= GaTotalStages
    THEN [sessions |-> sessions, response |-> GaStageState(sessions[id])]
    ELSE LET next == sessions[id].revealed_stages + 1
             session == [sessions[id] EXCEPT
                            !.revealed_stages = next,
                            !.current_stage = next,
                            !.name_hint_revealed = (next = GaTotalStages)]
         IN  [sessions |-> [sessions EXCEPT ![id] = session],
              response |-> GaStageState(session)]

\* navigateStage(n): shows a stage revealed before, consumes nothing
GaServeNavigate(sessions, id, stage) ==
    IF id \notin SessionIds \/ sessions[id] = NoSession
    THEN [sessions |-> sessions, response |-> OpError("SessionNotFound")]
    ELSE IF sessions[id].is_complete
    THEN [sessions |-> sessions, response |-> OpError("SessionAlreadyComplete")]
    ELSE IF stage < 1 \/ stage > sessions[id].revealed_stages
    THEN [sessions |-> sessions, response |-> OpError("InvalidStage")]
    ELSE LET session == [sessions[id] EXCEPT !.current_stage = stage]
         IN  [sessions |-> [sessions EXCEPT ![id] = session],
              response |-> GaStageState(session)]

\* guess(entity): the single attempt; right or wrong, the session completes
GaServeGuess(sessions, id, animeName) ==
    IF id \notin SessionIds \/ sessions[id] = NoSession
    THEN [sessions |-> sessions, response |-> OpError("SessionNotFound")]
    ELSE IF sessions[id].is_complete
    THEN [sessions |-> sessions, response |-> OpError("SessionAlreadyComplete")]
    ELSE IF sessions[id].attempts_remaining <= 0
    THEN [sessions |-> sessions, response |-> OpError("AttemptsExhausted")]
    ELSE LET won == Normalize(animeName) = Normalize(sessions[id].target.title)
             session == [sessions[id] EXCEPT
                            !.guesses = Append(@, animeName),
                            !.attempts_remaining = @ - 1,
                            !.is_complete = TRUE,
                            !.is_won = won]
         IN  [sessions |-> [sessions EXCEPT ![id] = session],
              response |-> [ok |-> TRUE, op |-> "guess", guess |-> animeName,
                            is_complete |-> TRUE, is_won |-> won,
                            target |-> [title |-> session.target.title],
                            all_screenshots |-> session.target.screenshots,
                            name_hint |-> [title |-> session.target.title]]]

\* giveUp: lost, the target and all screenshots are revealed
GaServeGiveUp(sessions, id) ==
    IF id \notin SessionIds \/ sessions[id] = NoSession
    THEN [sessions |-> sessions, response |-> OpError("SessionNotFound")]
    ELSE IF sessions[id].is_complete
    THEN [sessions |-> sessions, response |-> OpError("SessionAlreadyComplete")]
    ELSE LET session == [sessions[id] EXCEPT !.is_complete = TRUE, !.is_won = FALSE]
         IN  [sessions |-> [sessions EXCEPT ![id] = session],
              response |-> [ok |-> TRUE, op |-> "giveup",
                            target |-> [title |-> session.target.title],
                            all_screenshots |-> session.target.screenshots]]

\* the backend handling one request
GaServe(sessions, call, sample) ==
    CASE call.op = "start"    -> GaServeStart(sessions, sample)
      [] call.op = "reveal"   -> GaServeReveal(sessions, call.gameId)
      [] call.op = "navigate" -> GaServeNavigate(sessions, call.gameId, call.stage)
      [] call.op = "guess"    -> GaServeGuess(sessions, call.gameId, call.animeName)
      [] call.op = "giveup"   -> GaServeGiveUp(sessions, call.gameId)

\* the count of the reveal_stage calls the backend took for a live session
GaCountReveal(counts, sessions, call) ==
    IF call.op = "reveal" /\ call.gameId \in SessionIds
       /\ sessions[call.gameId] # NoSession /\ ~sessions[call.gameId].is_complete
    THEN [counts EXCEPT ![call.gameId] = Min(@ + 1, MaxRevealCalls)]
    ELSE counts

\* ------------------------------------------------------------------------
\* Guess Anime: the page (pages/GuessAnime.tsx)
\* ------------------------------------------------------------------------
\* "Game complete screen": gameState && gameState.isComplete && gameState.target
GaCompleteScreen(page) ==
    page.gameState # Null /\ page.gameState.isComplete /\ page.gameState.target # None

\* "Active game screen"
GaActiveScreen(page) == page.gameState # Null /\ ~GaCompleteScreen(page)

\* the stage buttons with every box clickable
GaStageButtonEnabled_anyStage(page, stage) ==
    LET gameState == page.gameState
        isNameHintRevealed == stage = 5 /\ gameState.nameHintRevealed
    IN  ~page.isLoading /\ ~isNameHintRevealed

\* the stage buttons: isClickable, and not disabled
GaStageButtonEnabled(page, stage) ==
    LET gameState == page.gameState
        isRevealed == stage <= gameState.revealedStages
        isClickable == isRevealed \/ stage = gameState.revealedStages + 1
        isNameHintRevealed == stage = 5 /\ gameState.nameHintRevealed
    IN  isClickable /\ ~page.isLoading /\ ~isNameHintRevealed

\* handleStageClick: the request it sends
GaStageRequest(gameState, stage) ==
    IF stage > gameState.revealedStages
    THEN [op |-> "reveal", gameId |-> gameState.gameId]
    ELSE [op |-> "navigate", gameId |-> gameState.gameId, stage |-> stage]

GaInit ==
    /\ gaSessions = [i \in SessionIds |-> NoSession]
    /\ gaPage = [isLoading |-> FALSE, gameState |-> Null,
                 searchValue |-> <<>>, error |-> None]
    /\ gaCall = NoCall
    /\ gaResponse = NothingServed
    /\ gaRevealCalls = [i \in SessionIds |-> 0]

\* the SearchInput's onChange / onSelect: setSearchValue
GaSetSearchValue(value) ==
    /\ GaActiveScreen(gaPage)
    /\ gaPage.searchValue # value
    /\ gaPage' = [gaPage EXCEPT !.searchValue = value]
    /\ UNCHANGED <<gaSessions, gaCall, gaResponse, gaRevealCalls>>
    /\ UNCHANGED notGuessAnime

\* startGame up to its await
GaStartGame ==
    /\ gaPage.gameState = Null
    /\ ~gaPage.isLoading
    /\ FreshId(gaSessions) # 0
    /\ gaPage' = [gaPage EXCEPT !.isLoading = TRUE, !.error = None]
    /\ gaCall' = [op |-> "start"]
    /\ UNCHANGED <<gaSessions, gaResponse, gaRevealCalls>>
    /\ UNCHANGED notGuessAnime

\* makeGuess up to its await
GaMakeGuess ==
    /\ GaActiveScreen(gaPage)
    /\ ~gaPage.isLoading
    /\ Trim(gaPage.searchValue) # <<>>
    /\ gaPage' = [gaPage EXCEPT !.isLoading = TRUE, !.error = None]
    /\ gaCall' = [op |-> "guess", gameId |-> gaPage.gameState.gameId,
                  animeName |-> gaPage.searchValue]
    /\ UNCHANGED <<gaSessions, gaResponse, gaRevealCalls>>
    /\ UNCHANGED notGuessAnime

\* handleStageClick up to its await
GaHandleStageClick(stage) ==
    /\ GaActiveScreen(gaPage)
    /\ GaStageButtonEnabled(gaPage, stage)
    /\ ~gaPage.gameState.isComplete
    /\ gaPage' = [gaPage EXCEPT !.isLoading = TRUE, !.error = None]
    /\ gaCall' = GaStageRequest(gaPage.gameState, stage)
    /\ UNCHANGED <<gaSessions, gaResponse, gaRevealCalls>>
    /\ UNCHANGED notGuessAnime

\* giveUp with its button left enabled while a request is in flight
GaGiveUp_whileLoading ==
    /\ GaActiveScreen(gaPage)
    /\ gaPage' = [gaPage EXCEPT !.isLoading = TRUE]
    /\ gaCall' = [op |-> "giveup", gameId |-> gaPage.gameState.gameId]
    /\ UNCHANGED <<gaSessions, gaResponse, gaRevealCalls>>
    /\ UNCHANGED notGuessAnime

\* giveUp up to its await
GaGiveUp ==
    /\ GaActiveScreen(gaPage)
    /\ ~gaPage.isLoading
    /\ gaPage' = [gaPage EXCEPT !.isLoading = TRUE]
    /\ gaCall' = [op |-> "giveup", gameId |-> gaPage.gameState.gameId]
    /\ UNCHANGED <<gaSessions, gaResponse, gaRevealCalls>>
    /\ UNCHANGED notGuessAnime

\* `a || b` on an optional value
OrElse(a, b) == IF a = None THEN b ELSE a

\* makeGuess's state update with isComplete left as it was
GaApplyGuess_stillOpen(gameState, data) ==
    [gameState EXCEPT !.guesses = Append(@, data.guess),
                      !.isWon = data.is_won,
                      !.target = data.target,
                      !.allScreenshots = data.all_screenshots,
                      !.nameHint = data.name_hint]

\* makeGuess's state update with the target of the answer dropped
GaApplyGuess_noTarget(gameState, data) ==
    [gameState EXCEPT !.guesses = Append(@, data.guess),
                      !.isComplete = data.is_complete,
                      !.isWon = data.is_won,
                      !.allScreenshots = data.all_screenshots,
                      !.nameHint = data.name_hint]

\* makeGuess's state update
GaApplyGuess(gameState, data) ==
    [gameState EXCEPT !.guesses = Append(@, data.guess),
                      !.isComplete = data.is_complete,
                      !.isWon = data.is_won,
                      !.target = data.target,
                      !.allScreenshots = data.all_screenshots,
                      !.nameHint = data.name_hint]

\* a stage change that also takes an attempt off the page's count
GaApplyStage_spendsAttempt(gameState, data) ==
    [gameState EXCEPT !.revealedStages = data.revealed_stages,
                      !.currentStage = data.current_stage,
                      !.currentScreenshot = OrElse(data.current_screenshot, @),
                      !.nameHintRevealed = data.name_hint_revealed,
                      !.nameHint = OrElse(data.name_hint, @),
                      !.attemptsRemaining = @ - 1]

\* handleStageClick's state update
GaApplyStage(gameState, data) ==
    [gameState EXCEPT !.revealedStages = data.revealed_stages,
                      !.currentStage = data.current_stage,
                      !.currentScreenshot = OrElse(data.current_screenshot, @),
                      !.nameHintRevealed = data.name_hint_revealed,
                      !.nameHint = OrElse(data.name_hint, @)]

\* the state update of each handler once its response is there
GaApplyResponse(page, call, data) ==
    CASE call.op = "start" ->
            [page EXCEPT
                !.gameState = [gameId |-> data.game_id,
                               currentScreenshot |-> data.current_screenshot,
                               totalStages |-> data.total_stages,
                               revealedStages |-> data.revealed_stages,
                               currentStage |-> data.current_stage,
                               nameHintRevealed |-> data.name_hint_revealed,
                               nameHint |-> data.name_hint,
                               attemptsRemaining |-> data.attempts_remaining,
                               guesses |-> <<>>,
                               isComplete |-> FALSE, isWon |-> FALSE,
                               target |-> None, allScreenshots |-> None]]
      [] call.op = "guess" ->
            IF page.gameState = Null THEN page
            ELSE [page EXCEPT !.gameState = GaApplyGuess(@, data),
                              !.searchValue = <<>>]
      [] call.op \in {"reveal", "navigate"} ->
            IF page.gameState = Null THEN page
            ELSE [page EXCEPT !.gameState = GaApplyStage(@, data)]
      [] call.op = "giveup" ->
            IF page.gameState = Null THEN page
            ELSE [page EXCEPT !.gameState.isComplete = TRUE,
                              !.gameState.isWon = FALSE,
                              !.gameState.target = data.target,
                              !.gameState.allScreenshots = data.all_screenshots]

\* the awaited request ends: the backend handles it and the handler resumes,
\* in its try branch on a 2xx answer, in its catch branch otherwise, and in
\* finally sets isLoading to false
GaFinish(sample, delivered) ==
    /\ gaCall # NoCall
    /\ UNCHANGED notGuessAnime
    /\ LET served == GaServe(gaSessions, gaCall, sample)
           response == served.response
       IN  /\ gaSessions' = served.sessions
           /\ gaRevealCalls' = GaCountReveal(gaRevealCalls, gaSessions, gaCall)
           /\ gaResponse' = [request |-> gaCall, response |-> response]
           /\ gaCall' = NoCall
           /\ IF response.ok /\ delivered
              THEN gaPage' = [GaApplyResponse(gaPage, gaCall, response)
                                 EXCEPT !.isLoading = FALSE]
              ELSE gaPage' = [gaPage EXCEPT !.isLoading = FALSE,
                                           !.error = Failed]

\* "Play Again" on the complete screen
GaPlayAgain ==
    /\ GaCompleteScreen(gaPage)
    /\ gaPage' = [gaPage EXCEPT !.gameState = Null]
    /\ UNCHANGED <<gaSessions, gaCall, gaResponse, gaRevealCalls>>
    /\ UNCHANGED notGuessAnime

\* another client of the API sends a request of its own
GaDirectCall(call) ==
    /\ call.op # "start"
    /\ LET served == GaServe(gaSessions, call, None)
       IN  /\ gaSessions' = served.sessions
           /\ gaResponse' = [request |-> call, response |-> served.response]
    /\ gaRevealCalls' = GaCountReveal(gaRevealCalls, gaSessions, call)
    /\ UNCHANGED <<gaPage, gaCall>>
    /\ UNCHANGED notGuessAnime

GaNext ==
    \/ \E v \in NameInputs : GaSetSearchValue(v)
    \/ GaStartGame
    \/ GaMakeGuess
    \/ \E stage \in 1..GaTotalStages : GaHandleStageClick(stage)
    \/ GaGiveUp
    \/ \E t \in GaTargets \cup {None}, d \in BOOLEAN : GaFinish(t, d)
    \/ GaPlayAgain
    \/ \E c \in ([op : {"reveal", "giveup"}, gameId : SessionIds]
          \cup [op : {"navigate"}, gameId : SessionIds, stage : 1..GaTotalStages]
          \cup [op : {"guess"}, gameId : SessionIds, animeName : EntityNames]) :
          GaDirectCall(c)

\* ------------------------------------------------------------------------
\* Guess Character: the backend (Dual-Field-Single-Shot sessions)
\* ------------------------------------------------------------------------
\* what the sampler can deliver: a character with its parent anime
GcTargets ==
    { [characterName |-> <<"a">>, animeTitle |-> <<"b">>,
       characterImage |-> [kind |-> "external", file |-> "a-portrait"]],
      [characterName |-> <<"b">>, animeTitle |-> <<"a">>,
       characterImage |-> [kind |-> "external", file |-> "b-portrait"]] }

GcTargetView(session) ==
    [characterName |-> session.target.characterName,
     characterImage |-> session.target.characterImage,
     animeTitle |-> session.target.animeTitle]

\* start: samples a character and its parent anime
GcServeStart(sessions, sample) ==
    IF sample = None THEN [sessions |-> sessions, response |-> OpError("SamplingExhausted")]
    ELSE LET id == FreshId(sessions)
             session == [target |-> sample, guess |-> None,
                         is_complete |-> FALSE, is_won |-> FALSE]
         IN  [sessions |-> [sessions EXCEPT ![id] = session],
              response |-> [ok |-> TRUE, op |-> "start", game_id |-> id,
                            character_image |-> sample.characterImage]]

\* the win rule: both fields match
GcIsWon(character_correct, anime_correct) == character_correct /\ anime_correct

\* guess(characterName, animeName): each field is matched on its own, and the
\* session completes whatever the verdict
GcServeGuess(sessions, id, characterName, animeName) ==
    IF id \notin SessionIds \/ sessions[id] = NoSession
    THEN [sessions |-> sessions, response |-> OpError("SessionNotFound")]
    ELSE IF sessions[id].is_complete
    THEN [sessions |-> sessions, response |-> OpError("SessionAlreadyComplete")]
    ELSE LET character_correct ==
                 Normalize(characterName) = Normalize(sessions[id].target.characterName)
             anime_correct ==
                 Normalize(animeName) = Normalize(sessions[id].target.animeTitle)
             won == GcIsWon(character_correct, anime_correct)
             session == [sessions[id] EXCEPT
                            !.guess = [characterName |-> characterName,
                                       animeName |-> animeName],
                            !.is_complete = TRUE,
                            !.is_won = won]
         IN  [sessions |-> [sessions EXCEPT ![id] = session],
              response |-> [ok |-> TRUE, op |-> "guess",
                            is_complete |-> TRUE, is_won |-> won,
                            character_correct |-> character_correct,
                            anime_correct |-> anime_correct,
                            target |-> GcTargetView(session)]]

\* giveUp: lost, the target is revealed
GcServeGiveUp(sessions, id) ==
    IF id \notin SessionIds \/ sessions[id] = NoSession
    THEN [sessions |-> sessions, response |-> OpError("SessionNotFound")]
    ELSE IF sessions[id].is_complete
    THEN [sessions |-> sessions, response |-> OpError("SessionAlreadyComplete")]
    ELSE LET session == [sessions[id] EXCEPT !.is_complete = TRUE, !.is_won = FALSE]
         IN  [sessions |-> [sessions EXCEPT ![id] = session],
              response |-> [ok |-> TRUE, op |-> "giveup",
                            target |-> GcTargetView(session)]]

\* the backend handling one request
GcServe(sessions, call, sample) ==
    CASE call.op = "start"  -> GcServeStart(sessions, sample)
      [] call.op = "guess"  -> GcServeGuess(sessions, call.gameId,
                                            call.characterName, call.animeName)
      [] call.op = "giveup" -> GcServeGiveUp(sessions, call.gameId)

\* ------------------------------------------------------------------------
\* Guess Character: the page (pages/GuessCharacter.tsx)
\* ------------------------------------------------------------------------
\* "Game complete screen": gameState.isComplete && gameState.target
GcCompleteScreen(page) ==
    page.gameState # Null /\ page.gameState.isComplete /\ page.gameState.target # None

\* "Active game screen"
GcActiveScreen(page) == page.gameState # Null /\ ~GcCompleteScreen(page)

GcInit ==
    /\ gcSessions = [i \in SessionIds |-> NoSession]
    /\ gcPage = [isLoading |-> FALSE, gameState |-> Null,
                 characterName |-> <<>>, animeName |-> <<>>, error |-> None]
    /\ gcCall = NoCall
    /\ gcResponse = NothingServed

\* the character SearchInput: setCharacterName
GcSetCharacterName(value) ==
    /\ GcActiveScreen(gcPage)
    /\ gcPage.characterName # value
    /\ gcPage' = [gcPage EXCEPT !.characterName = value]
    /\ UNCHANGED <<gcSessions, gcCall, gcResponse>>
    /\ UNCHANGED notGuessCharacter

\* the anime SearchInput: setAnimeName
GcSetAnimeName(value) ==
    /\ GcActiveScreen(gcPage)
    /\ gcPage.animeName # value
    /\ gcPage' = [gcPage EXCEPT !.animeName = value]
    /\ UNCHANGED <<gcSessions, gcCall, gcResponse>>
    /\ UNCHANGED notGuessCharacter

\* startGame up to its await
GcStartGame ==
    /\ gcPage.gameState = Null
    /\ ~gcPage.isLoading
    /\ FreshId(gcSessions) # 0
    /\ gcPage' = [gcPage EXCEPT !.isLoading = TRUE, !.error = None]
    /\ gcCall' = [op |-> "start"]
    /\ UNCHANGED <<gcSessions, gcResponse>>
    /\ UNCHANGED notGuessCharacter

\* makeGuess up to its await: both fields must hold more than blanks
GcMakeGuess ==
    /\ GcActiveScreen(gcPage)
    /\ ~gcPage.isLoading
    /\ Trim(gcPage.characterName) # <<>>
    /\ Trim(gcPage.animeName) # <<>>
    /\ gcPage' = [gcPage EXCEPT !.isLoading = TRUE, !.error = None]
    /\ gcCall' = [op |-> "guess", gameId |-> gcPage.gameState.gameId,
                  characterName |-> gcPage.characterName,
                  animeName |-> gcPage.animeName]
    /\ UNCHANGED <<gcSessions, gcResponse>>
    /\ UNCHANGED notGuessCharacter

\* giveUp up to its await
GcGiveUp ==
    /\ GcActiveScreen(gcPage)
    /\ ~gcPage.isLoading
    /\ gcPage' = [gcPage EXCEPT !.isLoading = TRUE]
    /\ gcCall' = [op |-> "giveup", gameId |-> gcPage.gameState.gameId]
    /\ UNCHANGED <<gcSessions, gcResponse>>
    /\ UNCHANGED notGuessCharacter

\* makeGuess's state update with the verdict of the character field as isWon
GcApplyGuess_characterOnly(gameState, data) ==
    [gameState EXCEPT !.isComplete = data.is_complete,
                      !.isWon = data.character_correct,
                      !.result = [characterCorrect |-> data.character_correct,
                                  animeCorrect |-> data.anime_correct],
                      !.target = data.target]

\* makeGuess's state update
GcApplyGuess(gameState, data) ==
    [gameState EXCEPT !.isComplete = data.is_complete,
                      !.isWon = data.is_won,
                      !.result = [characterCorrect |-> data.character_correct,
                                  animeCorrect |-> data.anime_correct],
                      !.target = data.target]

\* the state update of each handler once its response is there
GcApplyResponse(page, call, data) ==
    CASE call.op = "start" ->
            [page EXCEPT
                !.gameState = [gameId |-> data.game_id,
                               characterImage |-> data.character_image,
                               isComplete |-> FALSE, isWon |-> FALSE,
                               result |-> None, target |-> None]]
      [] call.op = "guess" ->
            IF page.gameState = Null THEN page
            ELSE [page EXCEPT !.gameState = GcApplyGuess(@, data)]
      [] call.op = "giveup" ->
            IF page.gameState = Null THEN page
            ELSE [page EXCEPT !.gameState.isComplete = TRUE,
                              !.gameState.isWon = FALSE,
                              !.gameState.target = data.target]

\* the awaited request ends: the backend handles it and the handler resumes,
\* in its try branch on a 2xx answer, in its catch branch otherwise, and in
\* finally sets isLoading to false
GcFinish(sample, delivered) ==
    /\ gcCall # NoCall
    /\ UNCHANGED notGuessCharacter
    /\ LET served == GcServe(gcSessions, gcCall, sample)
           response == served.response
       IN  /\ gcSessions' = served.sessions
           /\ gcResponse' = [request |-> gcCall, response |-> response]
           /\ gcCall' = NoCall
           /\ IF response.ok /\ delivered
              THEN gcPage' = [GcApplyResponse(gcPage, gcCall, response)
                                 EXCEPT !.isLoading = FALSE]
              ELSE gcPage' = [gcPage EXCEPT !.isLoading = FALSE,
                                           !.error = Failed]

\* "Play Again" on the complete screen
GcPlayAgain ==
    /\ GcCompleteScreen(gcPage)
    /\ gcPage' = [gcPage EXCEPT !.gameState = Null,
                                !.characterName = <<>>, !.animeName = <<>>]
    /\ UNCHANGED <<gcSessions, gcCall, gcResponse>>
    /\ UNCHANGED notGuessCharacter

\* another client of the API sends a request of its own
GcDirectCall(call) ==
    /\ call.op # "start"
    /\ LET served == GcServe(gcSessions, call, None)
       IN  /\ gcSessions' = served.sessions
           /\ gcResponse' = [request |-> call, response |-> served.response]
    /\ UNCHANGED <<gcPage, gcCall>>
    /\ UNCHANGED notGuessCharacter

GcNext ==
    \/ \E v \in NameInputs : GcSetCharacterName(v)
    \/ \E v \in NameInputs : GcSetAnimeName(v)
    \/ GcStartGame
    \/ GcMakeGuess
    \/ GcGiveUp
    \/ \E t \in GcTargets \cup {None}, d \in BOOLEAN : GcFinish(t, d)
    \/ GcPlayAgain
    \/ \E c \in ([op : {"giveup"}, gameId : SessionIds]
          \cup [op : {"guess"}, gameId : SessionIds,
          characterName : EntityNames, animeName : EntityNames]) :
          GcDirectCall(c)

\* ------------------------------------------------------------------------
\* Candidate Sampler: sample(gameType, difficultyTier)
\* ------------------------------------------------------------------------
\* the candidates of the bracket
CatalogSize == 6
Candidates == 1..CatalogSize

\* the attempt ceiling ("No themes found after 5 attempts")
AttemptCeiling == 5

SamplingExhausted == [tag |-> "SamplingExhausted"]
Pending == [tag |-> "Pending"]
Returned(c) == [tag |-> "Candidate", id |-> c]

\* "Anime must have at least 4 valid images to be playable"
MinImages == 4

GameTypes == {"attribute-guess", "staged-reveal", "dual-field", "media-staged-reveal"}

\* what the catalogs hold for a candidate: episode stills and backdrops (TMDB),
\* the id mapping and the themes of the media provider, the character's
\* portrait and the title of the parent anime
Assets(c) ==
    [stills |-> (c % 3) * 2, backdrops |-> (c % 2) * 3,
     mapping |-> c % 2 = 0, themes |-> c % 3,
     portrait |-> c > 2, parent |-> c % 3 # 0]

\* the asset contract with one image less asked for and the id mapping not
\* looked at
AssetContract_degraded(gameType, a) ==
    CASE gameType = "attribute-guess" -> TRUE
      [] gameType = "staged-reveal" -> a.stills + a.backdrops >= MinImages - 1
      [] gameType = "dual-field" -> a.portrait /\ a.parent
      [] gameType = "media-staged-reveal" -> a.themes >= 1

\* the asset contract of each game type
AssetContract(gameType, a) ==
    CASE gameType = "attribute-guess" -> TRUE
      [] gameType = "staged-reveal" -> a.stills + a.backdrops >= MinImages
      [] gameType = "dual-field" -> a.portrait /\ a.parent
      [] gameType = "media-staged-reveal" -> a.mapping /\ a.themes >= 1

SmInit ==
    /\ smPhase = "idle"
    /\ smGameType = "attribute-guess"
    /\ smDown = {}
    /\ smValid = {}
    /\ smRejected = {}
    /\ smAttempts = 0
    /\ smResult = Pending

\* sample(gameType, ...) is called; the lookups of the candidates in `down`
\* fail, the others are valid when their assets meet the contract
SmCall(gameType, down) ==
    /\ smPhase # "running"
    /\ smPhase' = "running"
    /\ smGameType' = gameType
    /\ smDown' = down
    /\ smValid' = { c \in Candidates \ down : AssetContract(gameType, Assets(c)) }
    /\ smRejected' = {}
    /\ smAttempts' = 0
    /\ smResult' = Pending
    /\ UNCHANGED notSampler

\* the asset contract with every candidate passing
SmAccepts_any(c, valid) == c \in Candidates

\* the asset contract: the catalog has the assets the game type requires
SmAccepts(c, valid) == c \in valid

\* the loop's exit test with one iteration more
SmExhausted_oneMore(attempts) == attempts > AttemptCeiling

\* the loop's exit test
SmExhausted(attempts) == attempts >= AttemptCeiling

\* one iteration in which a lookup that fails ends the whole call with the
\* error of the network layer
SmDraw_failureIsFatal(c) ==
    /\ smPhase = "running"
    /\ c \notin smRejected
    /\ smAttempts' = smAttempts + 1
    /\ IF c \in smDown
       THEN /\ smResult' = [tag |-> "NetworkError"]
            /\ smPhase' = "returned"
            /\ UNCHANGED smRejected
       ELSE IF SmAccepts(c, smValid)
       THEN /\ smResult' = Returned(c)
            /\ smPhase' = "returned"
            /\ UNCHANGED smRejected
       ELSE /\ smRejected' = smRejected \cup {c}
            /\ IF SmExhausted(smAttempts + 1)
               THEN smResult' = SamplingExhausted /\ smPhase' = "returned"
               ELSE UNCHANGED <<smResult, smPhase>>
    /\ UNCHANGED <<smValid, smGameType, smDown>>
    /\ UNCHANGED notSampler

\* one iteration: a candidate not drawn before is drawn and its asset
\* contract evaluated; it is returned, or rejected and not drawn again
SmDraw(c) ==
    /\ smPhase = "running"
    /\ c \notin smRejected
    /\ smAttempts' = smAttempts + 1
    /\ IF SmAccepts(c, smValid)
       THEN /\ smResult' = Returned(c)
            /\ smPhase' = "returned"
            /\ UNCHANGED smRejected
       ELSE /\ smRejected' = smRejected \cup {c}
            /\ IF SmExhausted(smAttempts + 1)
               THEN smResult' = SamplingExhausted /\ smPhase' = "returned"
               ELSE UNCHANGED <<smResult, smPhase>>
    /\ UNCHANGED <<smValid, smGameType, smDown>>
    /\ UNCHANGED notSampler

SmNext ==
    \/ \E gameType \in GameTypes, down \in SUBSET Candidates : SmCall(gameType, down)
    \/ \E c \in Candidates : SmDraw(c)

\* ------------------------------------------------------------------------
\* Session Store: idle expiry
\* ------------------------------------------------------------------------
MaxClock == 4
MaxSessions == 2
IdleThreshold == 1
StoreIds == 1..MaxSessions

ExInit ==
    /\ exNow = 0
    /\ exStore = [id \in StoreIds |-> NoSession]
    /\ exInFlight = {}
    /\ exSwept = {}

\* time passes
ExTick ==
    /\ exNow < MaxClock
    /\ exNow' = exNow + 1
    /\ exSwept' = {}
    /\ UNCHANGED <<exStore, exInFlight>>
    /\ UNCHANGED notStore

\* start: a session is created under a free id
ExCreate(id) ==
    /\ exStore[id] = NoSession
    /\ exStore' = [exStore EXCEPT ![id] = [touched |-> exNow]]
    /\ exSwept' = {}
    /\ UNCHANGED <<exNow, exInFlight>>
    /\ UNCHANGED notStore

\* a mutating operation on a stored session begins
ExBegin(id) ==
    /\ exStore[id] # NoSession
    /\ id \notin exInFlight
    /\ exInFlight' = exInFlight \cup {id}
    /\ exSwept' = {}
    /\ UNCHANGED <<exNow, exStore>>
    /\ UNCHANGED notStore

\* the operation ends: its update is stored and the session is touched
ExEnd(id) ==
    /\ id \in exInFlight
    /\ exStore' = [exStore EXCEPT ![id] = [touched |-> exNow]]
    /\ exInFlight' = exInFlight \ {id}
    /\ exSwept' = {}
    /\ UNCHANGED exNow
    /\ UNCHANGED notStore

\* the sweep going by idleness alone
ExEligible_idleOnly(id) ==
    /\ exStore[id] # NoSession
    /\ exNow - exStore[id].touched > IdleThreshold

\* eligible for removal: untouched beyond the threshold, no mutation in flight
ExEligible(id) ==
    /\ exStore[id] # NoSession
    /\ exNow - exStore[id].touched > IdleThreshold
    /\ id \notin exInFlight

\* one pass of the background sweep
ExSweep ==
    /\ \E id \in StoreIds : ExEligible(id)
    /\ exStore' = [id \in StoreIds |->
                      IF ExEligible(id) THEN NoSession ELSE exStore[id]]
    /\ exSwept' = {id \in StoreIds : ExEligible(id)}
    /\ UNCHANGED <<exNow, exInFlight>>
    /\ UNCHANGED notStore

ExNext ==
    \/ ExTick
    \/ \E id \in StoreIds : ExCreate(id)
    \/ \E id \in StoreIds : ExBegin(id)
    \/ \E id \in StoreIds : ExEnd(id)
    \/ ExSweep

\* ------------------------------------------------------------------------
\* Attribute Comparator: ordinal attributes, and the page reading the verdicts
\* ------------------------------------------------------------------------
MaxOrdinal == 2
OrdinalAttributes == {"year", "score", "episodes"}

\* the value of an attribute, or the attribute missing from the record
Absent == [present |-> FALSE, v |-> 0]
OrdinalValues == {Absent} \cup [present : {TRUE}, v : 0..MaxOrdinal]

\* a verdict as the comparison carries it: the text of the guess's value and
\* an indicator, "check" for the check mark, "up" and "down" for the arrows,
\* "cross" for the cross
Indicated(text, indicator) == <<text, " ", indicator>>

\* equal values reported as the target being higher
CompareOrdinal_equalIsHigher(guess, target) ==
    IF ~guess.present \/ ~target.present THEN Indicated("value", "cross")
    ELSE IF target.v >= guess.v THEN Indicated("value", "up")
    ELSE Indicated("value", "down")

\* a missing value compared as if it were zero
CompareOrdinal_missingIsZero(guess, target) ==
    IF target.v = guess.v THEN Indicated("value", "check")
    ELSE IF target.v > guess.v THEN Indicated("value", "up")
    ELSE Indicated("value", "down")

\* exact if equal, else target-higher / target-lower relative to the guess;
\* no-match when a side lacks the attribute
CompareOrdinal(guess, target) ==
    IF ~guess.present \/ ~target.present THEN Indicated("value", "cross")
    ELSE IF target.v = guess.v THEN Indicated("value", "check")
    ELSE IF target.v > guess.v THEN Indicated("value", "up")
    ELSE Indicated("value", "down")

\* compare(guess, target) on the ordinal attributes
compare(guess, target) ==
    [a \in OrdinalAttributes |-> CompareOrdinal(guess[a], target[a])]

\* getValueStatus: 'correct' | 'partial' | 'wrong'
getValueStatus(value) ==
    IF \E i \in DOMAIN value : value[i] = "check" THEN "correct"
    ELSE IF \E i \in DOMAIN value : value[i] \in {"up", "down"} THEN "partial"
    ELSE "wrong"

\* the arrows read the other way round
getArrowDirection_swapped(value) ==
    IF \E i \in DOMAIN value : value[i] = "up" THEN "down"
    ELSE IF \E i \in DOMAIN value : value[i] = "down" THEN "up"
    ELSE "null"

\* getArrowDirection: 'up' | 'down' | null
getArrowDirection(value) ==
    IF \E i \in DOMAIN value : value[i] = "up" THEN "up"
    ELSE IF \E i \in DOMAIN value : value[i] = "down" THEN "down"
    ELSE "null"

\* no comparison made yet
NotCompared == [a \in OrdinalAttributes |-> <<>>]

\* the tag vocabulary
Tags == {"t1", "t2", "t3"}

\* a tag of both tiers of the target reported by its secondary tier
CompareTags_secondaryFirst(guessTags, primary, secondary) ==
    { [name |-> t,
       status |-> IF t \in secondary THEN "secondary"
                  ELSE IF t \in primary THEN "correct"
                  ELSE "wrong"] : t \in guessTags }

\* the tag verdicts: one per tag of the guess, 'correct' for a primary tag of
\* the target, 'secondary' for a tag the target has as secondary only
CompareTags(guessTags, primary, secondary) ==
    { [name |-> t,
       status |-> IF t \in primary THEN "correct"
                  ELSE IF t \in secondary THEN "secondary"
                  ELSE "wrong"] : t \in guessTags }

\* getTagColorClass: text color only
getTagColorClass(status) ==
    CASE status = "correct"   -> "text-green-400"
      [] status = "secondary" -> "text-orange-400"
      [] OTHER                -> "text-red-400"

CmInit ==
    /\ cmGuess = [a \in OrdinalAttributes |-> Absent]
    /\ cmTarget = [a \in OrdinalAttributes |-> Absent]
    /\ cmForward = NotCompared
    /\ cmBackward = NotCompared
    /\ cmTags = [guess |-> {}, primary |-> {}, secondary |-> {}]
    /\ cmTagResult = {}

\* a guess is compared with the target, and the target with the guess
CmCompare(guess, target) ==
    /\ cmForward = NotCompared
    /\ cmGuess' = guess
    /\ cmTarget' = target
    /\ cmForward' = compare(guess, target)
    /\ cmBackward' = compare(target, guess)
    /\ UNCHANGED <<cmTags, cmTagResult>>
    /\ UNCHANGED notComparator

\* the tags of a guess are compared with the tags of the target
CmCompareTags(guessTags, primary, secondary) ==
    /\ cmTags' = [guess |-> guessTags, primary |-> primary, secondary |-> secondary]
    /\ cmTagResult' = CompareTags(guessTags, primary, secondary)
    /\ UNCHANGED <<cmGuess, cmTarget, cmForward, cmBackward>>
    /\ UNCHANGED notComparator

CmTagsNext ==
    \E guessTags, primary, secondary \in SUBSET Tags :
        CmCompareTags(guessTags, primary, secondary)

CmNext ==
    \E guess, target \in [OrdinalAttributes -> OrdinalValues] :
        CmCompare(guess, target)

\* ------------------------------------------------------------------------
\* Guess Character, four cards: the page maps over the cards start returned
\* ------------------------------------------------------------------------
NumCards == 2

\* the guess requests of the page are counted up to this number per card
MaxSent == 2
CardIds == 1..NumCards

FcInit ==
    /\ fcSessions = [id \in CardIds |-> NoSession]
    /\ fcPage = [isLoading |-> FALSE, gameState |-> Null, error |-> None]
    /\ fcLoop = NoCall
    /\ fcSent = [id \in CardIds |-> 0]

\* startGame and its answer: one session per card, or the catch branch
FcStartGame(targets, delivered) ==
    /\ fcPage.gameState = Null
    /\ ~fcPage.isLoading
    /\ \A id \in CardIds : fcSessions[id] = NoSession
    /\ IF targets = None
       THEN /\ fcPage' = [fcPage EXCEPT !.error = Failed]
            /\ UNCHANGED fcSessions
       ELSE /\ fcSessions' = [id \in CardIds |->
                                 [target |-> targets[id], guess |-> None,
                                  is_complete |-> FALSE, is_won |-> FALSE]]
            /\ fcPage' =
                  IF delivered
                  THEN [fcPage EXCEPT
                          !.error = None,
                          !.gameState =
                             [isComplete |-> FALSE, isWon |-> FALSE,
                              characters |->
                                 [id \in CardIds |->
                                    [gameId |-> id,
                                     characterImage |-> targets[id].characterImage,
                                     characterName |-> <<>>, animeName |-> <<>>,
                                     result |-> None, target |-> None]]]]
                  ELSE [fcPage EXCEPT !.error = Failed]
    /\ UNCHANGED <<fcLoop, fcSent>>
    /\ UNCHANGED notFourCards

\* updateCharacterInput(index, field, value)
FcUpdateCharacterInput(index, field, value) ==
    /\ fcPage.gameState # Null
    /\ ~fcPage.gameState.isComplete
    /\ fcPage.gameState.characters[index][field] # value
    /\ fcPage' = [fcPage EXCEPT !.gameState.characters[index][field] = value]
    /\ UNCHANGED <<fcSessions, fcLoop, fcSent>>
    /\ UNCHANGED notFourCards

\* makeGuess up to its first await
FcMakeGuess ==
    /\ fcPage.gameState # Null
    /\ ~fcPage.gameState.isComplete
    /\ ~fcPage.isLoading
    /\ fcPage' = [fcPage EXCEPT !.isLoading = TRUE, !.error = None]
    /\ fcLoop' = [op |-> "guess", i |-> 1, totalWins |-> 0,
                  updatedCharacters |-> fcPage.gameState.characters,
                  gameState |-> fcPage.gameState]
    /\ UNCHANGED <<fcSessions, fcSent>>
    /\ UNCHANGED notFourCards

\* guess(characterName, animeName) on the session of one card
FcServeGuess(sessions, id, characterName, animeName) ==
    IF id \notin CardIds \/ sessions[id] = NoSession
    THEN [sessions |-> sessions, response |-> OpError("SessionNotFound")]
    ELSE IF sessions[id].is_complete
    THEN [sessions |-> sessions, response |-> OpError("SessionAlreadyComplete")]
    ELSE LET character_correct ==
                 Normalize(characterName) = Normalize(sessions[id].target.characterName)
             anime_correct ==
                 Normalize(animeName) = Normalize(sessions[id].target.animeTitle)
             won == GcIsWon(character_correct, anime_correct)
             session == [sessions[id] EXCEPT
                            !.guess = [characterName |-> characterName,
                                       animeName |-> animeName],
                            !.is_complete = TRUE,
                            !.is_won = won]
         IN  [sessions |-> [sessions EXCEPT ![id] = session],
              response |-> [ok |-> TRUE, op |-> "guess",
                            is_complete |-> TRUE, is_won |-> won,
                            character_correct |-> character_correct,
                            anime_correct |-> anime_correct,
                            target |-> GcTargetView(session)]]

\* the overall win shown when a single card was won
FcAllWon_any(totalWins, cards) == totalWins > 0

\* isWon: totalWins === updatedCharacters.length
FcAllWon(totalWins, cards) == totalWins = cards

\* one turn of the loop of makeGuess: the guess of card i is answered; after
\* the last card the game state is set, and the catch branch ends the loop
FcGuessCard(delivered) ==
    /\ fcLoop # NoCall
    /\ UNCHANGED notFourCards
    /\ LET i == fcLoop.i
           char == fcLoop.updatedCharacters[i]
           served == FcServeGuess(fcSessions, char.gameId,
                                  char.characterName, char.animeName)
           data == served.response
       IN  /\ fcSessions' = served.sessions
           /\ fcSent' = [fcSent EXCEPT ![char.gameId] = Min(@ + 1, MaxSent)]
           /\ IF data.ok /\ delivered
              THEN LET updated == [fcLoop.updatedCharacters EXCEPT
                                     ![i].result =
                                        [characterCorrect |-> data.character_correct,
                                         animeCorrect |-> data.anime_correct,
                                         isWon |-> data.is_won],
                                     ![i].target = data.target]
                       wins == fcLoop.totalWins + (IF data.is_won THEN 1 ELSE 0)
                   IN  IF i < NumCards
                       THEN /\ fcLoop' = [fcLoop EXCEPT !.i = i + 1,
                                                        !.totalWins = wins,
                                                        !.updatedCharacters = updated]
                            /\ UNCHANGED fcPage
                       ELSE /\ fcLoop' = NoCall
                            /\ fcPage' =
                                  [fcPage EXCEPT
                                     !.isLoading = FALSE,
                                     !.gameState =
                                        [fcLoop.gameState EXCEPT
                                           !.isComplete = TRUE,
                                           !.isWon = FcAllWon(wins, NumCards),
                                           !.characters = updated]]
              ELSE /\ fcLoop' = NoCall
                   /\ fcPage' = [fcPage EXCEPT !.isLoading = FALSE, !.error = Failed]

\* "Play Again" on the complete screen: setGameState(null)
FcPlayAgain ==
    /\ fcPage.gameState # Null
    /\ fcPage.gameState.isComplete
    /\ fcPage' = [fcPage EXCEPT !.gameState = Null]
    /\ UNCHANGED <<fcSessions, fcLoop, fcSent>>
    /\ UNCHANGED notFourCards

\* a guess on one card's session sent by another client
FcDirectGuess(id, characterName, animeName) ==
    /\ fcSessions' = FcServeGuess(fcSessions, id, characterName, animeName).sessions
    /\ fcSessions' # fcSessions
    /\ UNCHANGED <<fcPage, fcLoop, fcSent>>
    /\ UNCHANGED notFourCards

FcNext ==
    \/ \E t \in [CardIds -> GcTargets] \cup {None}, d \in BOOLEAN : FcStartGame(t, d)
    \/ \E i \in CardIds, f \in {"characterName", "animeName"}, v \in EntityNames :
          FcUpdateCharacterInput(i, f, v)
    \/ FcMakeGuess
    \/ \E d \in BOOLEAN : FcGuessCard(d)
    \/ FcPlayAgain
    \/ \E id \in CardIds, c \in EntityNames : FcDirectGuess(id, c, c)

\* ------------------------------------------------------------------------
\* Guess Anime: the screenshots of the four image stages
\* ------------------------------------------------------------------------
\* the most stills and backdrops a catalog answer holds
MaxStills == 10
MaxBackdrops == 10

NotComposed == [tag |-> "NotComposed"]
NotPlayable == [tag |-> "NotPlayable"]

\* the i-th episode still and the i-th backdrop of the answer
Still(i) == [kind |-> "still", index |-> i]
Backdrop(i) == [kind |-> "backdrop", index |-> i]

\* the fourth image taken from the head of the backdrops, used or not
ComposeStages_backdropTwice(a) ==
    IF a.stills + a.backdrops < MinImages THEN NotPlayable
    ELSE LET k == Min(a.stills, GaImageStages - 1)
             first == [i \in 1..(GaImageStages - 1) |->
                          IF i <= k THEN Still(i) ELSE Backdrop(i - k)]
         IN  Append(first, IF a.backdrops >= 1 THEN Backdrop(1) ELSE Still(k + 1))

\* "Images 1, 2, 3: Prefer Episode Stills (fallback to Backdrop). Image 4:
\* Prefers Backdrop (fallback to Still). Anime must have at least 4 valid
\* images to be playable"
ComposeStages(a) ==
    IF a.stills + a.backdrops < MinImages THEN NotPlayable
    ELSE LET k == Min(a.stills, GaImageStages - 1)
             used == (GaImageStages - 1) - k
             first == [i \in 1..(GaImageStages - 1) |->
                          IF i <= k THEN Still(i) ELSE Backdrop(i - k)]
         IN  Append(first, IF a.backdrops > used THEN Backdrop(used + 1)
                                                  ELSE Still(k + 1))

ScInit ==
    /\ scAssets = [stills |-> 0, backdrops |-> 0]
    /\ scStages = NotComposed

\* the assets of a target come back and its stages are made
ScCompose(stills, backdrops) ==
    /\ scAssets' = [stills |-> stills, backdrops |-> backdrops]
    /\ scStages' = ComposeStages(scAssets')
    /\ UNCHANGED notScreenshots

ScNext == \E n \in 0..MaxStills, m \in 0..MaxBackdrops : ScCompose(n, m)

\* ------------------------------------------------------------------------
\* SearchInput: the text input with its dropdown of suggestions
\* ------------------------------------------------------------------------
\* the onSearch calls awaited at once, and issued in one exploration
MaxSearches == 2
MaxIssued == 3

\* what the user types into the input
SiTyped == { <<>>, <<"n">>, <<"n", "a">>, <<"n", "a", "r">> }

\* what onSearch can resolve to
SiCatalog ==
    { [label |-> "Nana", value |-> <<"n", "a">>],
      [label |-> "Naruto", value |-> <<"n", "a", "r">>] }
SiResults ==
    { <<>> } \cup { <<a>> : a \in SiCatalog }
             \cup { <<pair[1], pair[2]>> :
                       pair \in { q \in SiCatalog \X SiCatalog : q[1] # q[2] } }

\* if (!query || query.length < 2)
SiTooShort(query) == query = <<>> \/ Len(query) < 2

\* ArrowDown without the test against the end of the list
SiArrowDown_unbounded(prev, length) == prev + 1

\* ArrowDown: prev < suggestions.length - 1 ? prev + 1 : prev
SiArrowDown(prev, length) == IF prev < length - 1 THEN prev + 1 ELSE prev

\* ArrowUp: prev > 0 ? prev - 1 : -1
SiArrowUp(prev) == IF prev > 0 THEN prev - 1 ELSE -1

\* Enter: highlightIndex >= 0 && highlightIndex < suggestions.length
SiEnterSelects(index, length) == index >= 0 /\ index < length

SiEventOf(e, detail) == [e |-> e, detail |-> detail]

SiInit ==
    /\ siValue = <<>>
    /\ siSuggestions = <<>>
    /\ siIsOpen = FALSE
    /\ siIsLoading = FALSE
    /\ siHighlightIndex = -1
    /\ siTimer = TRUE
    /\ siInFlight = <<>>
    /\ siIssued = 0
    /\ siShown = 0
    /\ siSelected = FALSE
    /\ siEvent = SiEventOf("mount", <<>>)

\* the input's onChange: the page sets value, and the effect on [value]
\* clears the pending timeout and sets a new one
SiChange(value) ==
    /\ value # siValue
    /\ siValue' = value
    /\ siTimer' = TRUE
    /\ siSelected' = FALSE
    /\ siEvent' = SiEventOf("change", value)
    /\ UNCHANGED <<siSuggestions, siIsOpen, siIsLoading, siHighlightIndex,
                   siInFlight, siIssued, siShown>>
    /\ UNCHANGED notSearchInput

\* the timeout fires: searchSuggestions(value) up to its await
SiTimeout ==
    /\ siTimer
    /\ siTimer' = FALSE
    /\ siEvent' = SiEventOf("timeout", siValue)
    /\ IF SiTooShort(siValue)
       THEN /\ siSuggestions' = <<>>
            /\ siIsOpen' = FALSE
            /\ UNCHANGED <<siIsLoading, siInFlight, siIssued>>
       ELSE /\ Len(siInFlight) < MaxSearches
            /\ siIssued < MaxIssued
            /\ siIsLoading' = TRUE
            /\ siIssued' = siIssued + 1
            /\ siInFlight' = Append(siInFlight, [query |-> siValue, n |-> siIssued + 1])
            /\ UNCHANGED <<siSuggestions, siIsOpen>>
    /\ UNCHANGED <<siValue, siHighlightIndex, siShown, siSelected>>
    /\ UNCHANGED notSearchInput

\* an awaited onSearch resolves: the try branch and finally
SiSearchReturns(i, results) ==
    /\ i \in DOMAIN siInFlight
    /\ siInFlight' = RemoveAt(siInFlight, i)
    /\ siSuggestions' = results
    /\ siIsOpen' = (Len(results) > 0)
    /\ siHighlightIndex' = -1
    /\ siIsLoading' = FALSE
    /\ siShown' = siInFlight[i].n
    /\ siEvent' = SiEventOf("returned", siInFlight[i].query)
    /\ UNCHANGED <<siValue, siTimer, siIssued, siSelected>>
    /\ UNCHANGED notSearchInput

\* an awaited onSearch rejects: the catch branch and finally
SiSearchFails(i) ==
    /\ i \in DOMAIN siInFlight
    /\ siInFlight' = RemoveAt(siInFlight, i)
    /\ siSuggestions' = <<>>
    /\ siIsLoading' = FALSE
    /\ siEvent' = SiEventOf("failed", siInFlight[i].query)
    /\ UNCHANGED <<siValue, siIsOpen, siHighlightIndex, siTimer, siIssued,
                   siShown, siSelected>>
    /\ UNCHANGED notSearchInput

\* handleSelect(suggestion): onChange and onSelect set the page's value (the
\* effect sets a timeout when the value changed), the dropdown is closed
SiHandleSelect(suggestion, how) ==
    /\ siValue' = suggestion.value
    /\ siTimer' = IF suggestion.value # siValue THEN TRUE ELSE siTimer
    /\ siIsOpen' = FALSE
    /\ siSuggestions' = <<>>
    /\ siSelected' = TRUE
    /\ siEvent' = SiEventOf(how, suggestion.value)
    /\ UNCHANGED <<siIsLoading, siHighlightIndex, siInFlight, siIssued, siShown>>

\* handleKeyDown
SiKeyDown(key) ==
    /\ UNCHANGED notSearchInput
    /\ IF ~siIsOpen \/ Len(siSuggestions) = 0
       THEN /\ siEvent' = SiEventOf("ignored", <<>>)
            /\ UNCHANGED <<siValue, siSuggestions, siIsOpen, siIsLoading,
                           siHighlightIndex, siTimer, siInFlight, siIssued,
                           siShown, siSelected>>
       ELSE CASE key = "ArrowDown" ->
                   /\ siHighlightIndex' =
                         SiArrowDown(siHighlightIndex, Len(siSuggestions))
                   /\ siEvent' = SiEventOf("ArrowDown", <<>>)
                   /\ UNCHANGED <<siValue, siSuggestions, siIsOpen, siIsLoading,
                                  siTimer, siInFlight, siIssued, siShown, siSelected>>
              [] key = "ArrowUp" ->
                   /\ siHighlightIndex' = SiArrowUp(siHighlightIndex)
                   /\ siEvent' = SiEventOf("ArrowUp", <<>>)
                   /\ UNCHANGED <<siValue, siSuggestions, siIsOpen, siIsLoading,
                                  siTimer, siInFlight, siIssued, siShown, siSelected>>
              [] key = "Enter" ->
                   IF SiEnterSelects(siHighlightIndex, Len(siSuggestions))
                   THEN SiHandleSelect(siSuggestions[siHighlightIndex + 1], "Enter")
                   ELSE /\ siEvent' = SiEventOf("ignored", <<>>)
                        /\ UNCHANGED <<siValue, siSuggestions, siIsOpen, siIsLoading,
                                       siHighlightIndex, siTimer, siInFlight,
                                       siIssued, siShown, siSelected>>
              [] key = "Escape" ->
                   /\ siIsOpen' = FALSE
                   /\ siEvent' = SiEventOf("Escape", <<>>)
                   /\ UNCHANGED <<siValue, siSuggestions, siIsLoading,
                                  siHighlightIndex, siTimer, siInFlight, siIssued,
                                  siShown, siSelected>>

\* a suggestion of the dropdown is clicked
SiClick(index) ==
    /\ siIsOpen
    /\ index \in 0..(Len(siSuggestions) - 1)
    /\ SiHandleSelect(siSuggestions[index + 1], "click")
    /\ UNCHANGED notSearchInput

\* onMouseEnter of a suggestion
SiMouseEnter(index) ==
    /\ siIsOpen
    /\ index \in 0..(Len(siSuggestions) - 1)
    /\ siHighlightIndex' = index
    /\ siEvent' = SiEventOf("hover", <<>>)
    /\ UNCHANGED <<siValue, siSuggestions, siIsOpen, siIsLoading, siTimer,
                   siInFlight, siIssued, siShown, siSelected>>
    /\ UNCHANGED notSearchInput

\* onFocus: suggestions.length > 0 && setIsOpen(true)
SiFocus ==
    /\ siIsOpen' = IF Len(siSuggestions) > 0 THEN TRUE ELSE siIsOpen
    /\ siEvent' = SiEventOf("focus", <<>>)
    /\ UNCHANGED <<siValue, siSuggestions, siIsLoading, siHighlightIndex, siTimer,
                   siInFlight, siIssued, siShown, siSelected>>
    /\ UNCHANGED notSearchInput

\* handleClickOutside
SiClickOutside ==
    /\ siIsOpen' = FALSE
    /\ siEvent' = SiEventOf("outside", <<>>)
    /\ UNCHANGED <<siValue, siSuggestions, siIsLoading, siHighlightIndex, siTimer,
                   siInFlight, siIssued, siShown, siSelected>>
    /\ UNCHANGED notSearchInput

SiNext ==
    \/ \E v \in SiTyped : SiChange(v)
    \/ SiTimeout
    \/ \E i \in 1..MaxSearches, results \in SiResults : SiSearchReturns(i, results)
    \/ \E i \in 1..MaxSearches : SiSearchFails(i)
    \/ \E key \in {"ArrowDown", "ArrowUp", "Enter", "Escape"} : SiKeyDown(key)
    \/ \E index \in 0..1 : SiClick(index)
    \/ \E index \in 0..1 : SiMouseEnter(index)
    \/ SiFocus
    \/ SiClickOutside

\* ------------------------------------------------------------------------
\* Media URLs: the URLs the pages render
\* ------------------------------------------------------------------------
\* the pieces a URL is made of here, and how many of them
MaxSegments == 3
PxSegments ==
    { ProxyPrefix, DataPrefix, DiscordCdn, DiscordMedia, ProxyQuery,
      <<"h", "t", "t", "p", "s", ":", "/", "/">>, <<"/", "a", "p", "i", "/", "m", "e", "d", "i", "a", "/", "p", "r", "o", "x">>, <<"d", "i", "s", "c", "o", "r", "d", "a", "p", "p", ".", "c", "o", "m">>,
      <<"a">>, <<"/">>, <<"%">>, <<LoneSurrogate>> }

RECURSIVE PxJoin(_)
PxJoin(segments) ==
    IF segments = <<>> THEN <<>> ELSE Head(segments) \o PxJoin(Tail(segments))

\* string | null | undefined
PxUrls ==
    {Null, None}
    \cup UNION { { Str(PxJoin(q)) : q \in [1..n -> PxSegments] } : n \in 0..MaxSegments }

NotRendered == [tag |-> "NotRendered"]

PxInit ==
    /\ pxUrl = NotRendered
    /\ pxOnce = NotRendered
    /\ pxTwice = NotRendered

\* a render passes url to proxyMediaUrl, and the result once more; an
\* exception of the first call is what the second call would be given
PxRender(url) ==
    /\ pxUrl = NotRendered
    /\ pxUrl' = url
    /\ pxOnce' = proxyMediaUrl(url)
    /\ pxTwice' = IF proxyMediaUrl(url) = URIError THEN URIError
                  ELSE proxyMediaUrl(proxyMediaUrl(url))
    /\ UNCHANGED notMediaUrls

PxNext == \E url \in PxUrls : PxRender(url)

\* ------------------------------------------------------------------------
\* Specifications
\* ------------------------------------------------------------------------
Init == AnidleInit /\ OpInit /\ GaInit /\ GcInit /\ SmInit /\ ExInit /\ CmInit
        /\ FcInit /\ ScInit /\ SiInit /\ PxInit

\* the Anidle backend
Next == AnidleNext
Spec == Init /\ [][Next]_vars

\* the Anidle backend with its hint and give-up endpoints, serving a client
\* that awaits the answer to a start or a guess before it sends the next
NextAnidle ==
    \/ \E u \in Users, d \in Difficulties : handlers = <<>> /\ StartBegin(u, d)
    \/ \E i \in 1..MaxInFlight, t \in RandomResults : StartFinish(i, t)
    \/ \E g \in RequestIds : GuessNotFound(g)
    \/ \E g \in GameIds, n \in Names : handlers = <<>> /\ GuessBegin(g, n)
    \/ \E i \in 1..MaxInFlight : GuessFinish(i)
    \/ \E g \in RequestIds, k \in HintKinds : Hint(g, k)
    \/ \E g \in RequestIds : GiveUp(g)
SpecAnidle == Init /\ [][NextAnidle]_vars

\* the Guess Opening page and its backend
SpecOpening == Init /\ [][OpNext]_vars

\* the Guess Anime page and its backend
SpecGuessAnime == Init /\ [][GaNext]_vars

\* the Guess Character page and its backend
SpecGuessCharacter == Init /\ [][GcNext]_vars

\* the Candidate Sampler
SpecSampler == Init /\ [][SmNext]_vars

\* the Session Store with its expiry sweep
SpecExpiry == Init /\ [][ExNext]_vars

\* the Attribute Comparator
SpecComparator == Init /\ [][CmNext]_vars

\* the Attribute Comparator on tags
SpecTags == Init /\ [][CmTagsNext]_vars

\* Guess Character with four cards
SpecFourCards == Init /\ [][FcNext]_vars

\* the screenshots of Guess Anime
SpecScreenshots == Init /\ [][ScNext]_vars

\* SearchInput
SpecSearchInput == Init /\ [][SiNext]_vars

\* the media URLs
SpecMediaUrls == Init /\ [][PxNext]_vars

\* ------------------------------------------------------------------------
\* Properties of the Anidle backend
\* ------------------------------------------------------------------------
LiveRefs == {r \in ObjRefs : heap[r] # Free}

WinningGuesses(game) ==
    {i \in 1..Len(game.guesses) : game.guesses[i].guess.id = game.target.id}

NamesakeGuesses(game) ==
    {i \in 1..Len(game.guesses) :
        /\ game.guesses[i].guess.title = game.target.title
        /\ game.guesses[i].guess.id # game.target.id}

NoDuplicates(q) == \A i, j \in DOMAIN q : q[i] = q[j] => i = j

\* C1: start answers max_guesses 21 and stores an open game with 21 attempts
\* left; while no hint was used and no guess has won, the attempts left are 21
\* minus the number of guesses, the game is not won, and it is complete (lost)
\* from the 21st guess on and not before.
C1_TwentyOneAttempts ==
    /\ lastResponse.op = "start" /\ lastResponse.status = 200
          => lastResponse.max_guesses = 21
    /\ \A r \in LiveRefs :
          LET game == heap[r]
          IN  /\ Len(game.guesses) = 0
                    => Remaining(game) = 21 /\ ~game.is_complete /\ ~game.is_won
              /\ game.hint_penalty = 0 /\ WinningGuesses(game) = {}
                    => /\ Remaining(game) = 21 - Len(game.guesses)
                       /\ ~game.is_won
                       /\ game.is_complete <=> Len(game.guesses) >= 21

\* a game lost by its 21st non-winning guess
C1_Witness ==
    \E r \in LiveRefs :
        /\ Len(heap[r].guesses) = 21
        /\ WinningGuesses(heap[r]) = {}
        /\ heap[r].is_complete /\ ~heap[r].is_won
        /\ Remaining(heap[r]) = 0
        /\ lastResponse.op = "guess" /\ lastResponse.status = 200
        /\ lastResponse.guesses_remaining = 0

\* C2: a game is won exactly when one of its guesses has the target's id, a
\* won game is complete, a guess of the target's title under another id does
\* not win, and a game won by its first guess has 20 attempts left.
C2_WinIffSameId ==
    \A r \in LiveRefs :
        LET game == heap[r]
        IN  /\ game.is_won <=> WinningGuesses(game) # {}
            /\ game.is_won => game.is_complete
            /\ Len(game.guesses) = 1 /\ WinningGuesses(game) = {1}
                  => game.is_won /\ game.is_complete /\ Remaining(game) = 20

\* a namesake of the target was guessed and the game is not won
C2_Witness ==
    \E r \in LiveRefs :
        /\ NamesakeGuesses(heap[r]) # {}
        /\ ~heap[r].is_won
        /\ lastResponse.op = "guess" /\ lastResponse.status = 200
        /\ lastResponse.comparison.title = "exact" /\ ~lastResponse.is_won

\* C3: once a stored game is complete, a guess that arrives later is rejected
\* and leaves the game as it was (a step that is not a start, taken while the
\* only guesses in flight on the game arrived after its completion).
C3_CompleteIsFinal ==
    [][\A g \in GameIds :
          (/\ games[g] # NoRef
           /\ heap[games[g]].is_complete
           /\ \A i \in PendingOn(games[g]) : handlers[i].late
           /\ lastResponse'.op # "start")
          => /\ games'[g] # NoRef
             /\ heap'[games'[g]] = heap[games[g]]]_vars

\* C4: no two guess handlers of a game find the same number of guesses before
\* their update, and a game never holds more guesses than its budget.
C4_SerializedWithinBudget ==
    \A r \in LiveRefs :
        /\ NoDuplicates(preCounts[r])
        /\ Len(heap[r].guesses) + heap[r].hint_penalty <= heap[r].max_guesses

\* ------------------------------------------------------------------------
\* Properties of Guess Opening
\* ------------------------------------------------------------------------
\* C5: the URL the page plays as video at stage 2 was in no payload the page
\* received while the session was at stage 1, the start response included.
C5_VideoUrlWithheldAtStage1 ==
    (OpActiveScreen(opPage) /\ OpMediaPlayer(opPage.gameState).element = "video")
        => opPage.gameState.themeUrl \notin opSeenAtStage1

\* ------------------------------------------------------------------------
\* Properties of Guess Anime
\* ------------------------------------------------------------------------
GaLive == { id \in SessionIds : gaSessions[id] # NoSession }

GaStagesInRange ==
    /\ \A id \in GaLive :
          /\ 1 <= gaSessions[id].current_stage
          /\ gaSessions[id].current_stage <= gaSessions[id].revealed_stages
          /\ gaSessions[id].revealed_stages <= GaTotalStages
          /\ gaSessions[id].revealed_stages = Min(1 + gaRevealCalls[id], GaTotalStages)
    /\ gaPage.gameState # Null =>
          /\ gaPage.gameState.currentStage <= gaPage.gameState.totalStages
          /\ gaPage.gameState.revealedStages <= gaPage.gameState.totalStages

GaRevealAtMaxIsNoOp ==
    \A id \in GaLive :
        ( /\ gaResponse' # gaResponse
          /\ gaResponse'.request = [op |-> "reveal", gameId |-> id]
          /\ ~gaSessions[id].is_complete
          /\ gaSessions[id].revealed_stages = GaTotalStages )
        => /\ gaSessions' = gaSessions
           /\ gaResponse'.response = GaStageState(gaSessions[id])
           /\ gaResponse'.response.current_stage <= GaTotalStages

\* C7: the stage pointer of a session never exceeds the five stages; after k
\* revealStage calls from stage 1 the session has min(1 + k, 5) stages
\* revealed, so five calls land on stage 5; a call with all five revealed
\* leaves the session as it is and answers with the current state.
C7_StagePointerBounded == [](GaStagesInRange) /\ [][GaRevealAtMaxIsNoOp]_vars

\* revealStage was called six times and the last call was answered with the
\* state of stage 5
C7_Witness ==
    /\ gaSessions[1] # NoSession
    /\ gaRevealCalls[1] >= 6
    /\ gaSessions[1].revealed_stages = GaTotalStages
    /\ gaResponse.request = [op |-> "reveal", gameId |-> 1]
    /\ gaResponse.response.ok
    /\ gaResponse.response.current_stage = GaTotalStages

\* ------------------------------------------------------------------------
\* Properties of Guess Character
\* ------------------------------------------------------------------------
GcLive == { id \in SessionIds : gcSessions[id] # NoSession }

GcCharacterMatches(session) ==
    Normalize(session.guess.characterName) = Normalize(session.target.characterName)

GcAnimeMatches(session) ==
    Normalize(session.guess.animeName) = Normalize(session.target.animeTitle)

\* C8: a session that took a guess is complete, and won exactly when both
\* the character name and the anime name match the target after
\* normalization; the page that received the verdict is complete too and
\* shows a win exactly when both fields are marked correct.
C8_BothFieldsWin ==
    /\ \A id \in GcLive :
          LET session == gcSessions[id]
          IN  session.guess # None =>
                 /\ session.is_complete
                 /\ session.is_won <=>
                       (GcCharacterMatches(session) /\ GcAnimeMatches(session))
    /\ (gcPage.gameState # Null /\ gcPage.gameState.result # None) =>
          LET gameState == gcPage.gameState
          IN  /\ GcCompleteScreen(gcPage)
              /\ gameState.isWon <=>
                    (gameState.result.characterCorrect /\ gameState.result.animeCorrect)

\* the character was right and the anime wrong: the page shows a loss
C8_Witness ==
    /\ gcPage.gameState # Null
    /\ gcPage.gameState.result # None
    /\ gcPage.gameState.result.characterCorrect
    /\ ~gcPage.gameState.result.animeCorrect
    /\ ~gcPage.gameState.isWon
    /\ gcPage.gameState.isComplete
    /\ gcSessions[gcPage.gameState.gameId].guess # None
    /\ GcCharacterMatches(gcSessions[gcPage.gameState.gameId])

\* ------------------------------------------------------------------------
\* Properties of the Candidate Sampler
\* ------------------------------------------------------------------------
\* C9: sample() never draws more than the attempt ceiling, is not running
\* once the ceiling is reached, and with no valid candidate in the catalog
\* it returns SamplingExhausted after exactly the ceiling of draws.
C9_ExhaustedAtCeiling ==
    /\ smAttempts <= AttemptCeiling
    /\ smPhase = "running" => smAttempts < AttemptCeiling
    /\ (smPhase = "returned" /\ smValid = {}) =>
          /\ smResult = SamplingExhausted
          /\ smAttempts = AttemptCeiling
          /\ Cardinality(smRejected) = AttemptCeiling

C9_Witness ==
    /\ smPhase = "returned"
    /\ smValid = {}
    /\ smResult = SamplingExhausted
    /\ smAttempts = AttemptCeiling

C11_ReturnedMeetsContract ==
    smResult.tag = "Candidate" =>
        LET a == Assets(smResult.id)
        IN  /\ smResult.id \notin smDown
            /\ smResult.id \notin smRejected
            /\ smGameType = "staged-reveal" => a.stills + a.backdrops >= 4
            /\ smGameType = "dual-field" => (a.portrait /\ a.parent)
            /\ smGameType = "media-staged-reveal" => (a.mapping /\ a.themes >= 1)

\* a theme game: a candidate with themes but no id mapping was drawn and
\* rejected, then a candidate with both was returned
C11_Witness ==
    /\ smResult.tag = "Candidate"
    /\ smGameType = "media-staged-reveal"
    /\ \E c \in smRejected :
          c \notin smDown /\ ~Assets(c).mapping /\ Assets(c).themes >= 1

\* ------------------------------------------------------------------------
\* Properties of the Anidle backend (continued)
\* ------------------------------------------------------------------------
StoredGames == { r \in ObjRefs : heap[r] # Free }

\* C12: a start whose sampling fails is answered 500 and leaves the store as
\* it was: the same game ids, the same game dicts; no stored game is without
\* a sampled target.
C12_FailedStartCreatesNothing ==
    /\ [](\A r \in StoredGames : heap[r].target # None)
    /\ [][(lastResponse'.status = 500 /\ handlers' # handlers)
             => (games' = games /\ heap' = heap)]_vars

\* a start failed while a game of an earlier start was in the store
C12_Witness ==
    /\ lastResponse = HttpError(500, "start")
    /\ \E g \in GameIds : games[g] # NoRef

\* C13: a served hint lowers the attempts remaining of its game by the cost
\* of its kind and leaves the guess list as it was; the game is complete, and
\* not won, exactly when the cost used up what remained, and is open otherwise.
C13_HintCostsAttempts ==
    [][(/\ lastResponse'.op = "hint"
        /\ lastResponse'.status = 200
        /\ handlers' = handlers)
       => \A r \in ObjRefs :
            heap'[r] # heap[r] =>
              /\ heap'[r].guesses = heap[r].guesses
              /\ \/ lastResponse'.hint_type = "minor"
                    /\ Remaining(heap'[r]) = Remaining(heap[r]) - 2
                 \/ lastResponse'.hint_type = "major"
                    /\ Remaining(heap'[r]) = Remaining(heap[r]) - 5
              /\ Remaining(heap'[r]) >= 0
              /\ heap'[r].is_complete <=> (Remaining(heap'[r]) = 0)
              /\ ~heap'[r].is_won
              /\ lastResponse'.is_complete = heap'[r].is_complete
              /\ lastResponse'.guesses_remaining = Remaining(heap'[r])]_vars

\* a hint has just used up the last attempts of a game: complete and lost
C13_Witness ==
    /\ lastResponse.op = "hint"
    /\ lastResponse.status = 200
    /\ lastResponse.is_complete
    /\ \E r \in StoredGames :
          /\ heap[r].is_complete
          /\ ~heap[r].is_won
          /\ heap[r].hint_penalty > 0
          /\ heap[r].guesses # <<>>
          /\ Remaining(heap[r]) = 0

\* C14: in every reachable state each stored game has zero or more attempts
\* remaining, and no answered guess reports a negative number of them (a
\* guess beyond the budget is rejected instead of being counted).
C14_RemainingNeverNegative ==
    /\ \A r \in StoredGames : Remaining(heap[r]) >= 0
    /\ (lastResponse.op = "guess" /\ lastResponse.status = 200)
          => lastResponse.guesses_remaining >= 0

\* C15: a guess, a hint or a give-up naming a game id that is not in the store
\* is answered not-found, and the not-found answer leaves the store as it was:
\* the same ids, the same games, no game created.
C15_UnknownIdChangesNothing ==
    [][/\ (lastResponse'.status = 404 /\ handlers' = handlers)
            => (games' = games /\ heap' = heap /\ preCounts' = preCounts)
       /\ ((\A g \in GameIds : games[g] = NoRef)
             /\ lastResponse'.op \in {"guess", "hint", "giveup"})
            => lastResponse'.status = 404]_vars

\* a request for an unknown id was answered not-found while another game,
\* already guessed on, is in the store
C15_Witness ==
    /\ lastResponse.status = 404
    /\ \E r \in StoredGames : heap[r].guesses # <<>> /\ ~heap[r].is_complete

\* C16: a give-up served for a session that is active completes it as lost,
\* never won, and its answer names the target together with the title and the
\* artist of the theme; the page that asked then shows the game as complete
\* and lost with that target and that theme.
C16_GiveUpLosesAndReveals ==
    [][/\ \A id \in SessionIds :
            (/\ opSessions[id] # NoSession
             /\ ~opSessions[id].is_complete
             /\ opResponse' # opResponse
             /\ opResponse'.request.op = "giveup"
             /\ opResponse'.request.gameId = id)
            => /\ opSessions'[id].is_complete
               /\ ~opSessions'[id].is_won
               /\ opSessions'[id].target = opSessions[id].target
               /\ opResponse'.response.ok
               /\ opResponse'.response.target.title = opSessions[id].target.title
               /\ opResponse'.response.theme.title = opSessions[id].target.theme.title
               /\ opResponse'.response.theme.artist = opSessions[id].target.theme.artist
       /\ (/\ opCall.op = "giveup"
           /\ opCall' = NoCall
           /\ opResponse'.response.ok
           /\ opPage'.gameState # opPage.gameState)
          => /\ opPage'.gameState.isComplete
             /\ ~opPage'.gameState.isWon
             /\ opPage'.gameState.target = opResponse'.response.target
             /\ opPage'.gameState.theme = opResponse'.response.theme]_vars

\* the page gave up an active game and shows it lost, with its target and theme
C16_Witness ==
    /\ opResponse.request.op = "giveup"
    /\ opResponse.response.ok
    /\ OpCompleteScreen(opPage)
    /\ ~opPage.gameState.isWon
    /\ opPage.gameState.theme # None
    /\ opPage.gameState.theme.artist = opResponse.response.theme.artist
    /\ \E id \in SessionIds :
          /\ opSessions[id] # NoSession
          /\ opSessions[id].is_complete /\ ~opSessions[id].is_won
          /\ opPage.gameState.target.title = opSessions[id].target.title

C18_SweepSparesInFlight ==
    /\ [](\A id \in exInFlight : exStore[id] # NoSession)
    /\ [][\A id \in StoreIds :
            (exStore[id] # NoSession /\ exStore'[id] = NoSession)
            => /\ id \notin exInFlight
               /\ exNow - exStore[id].touched > IdleThreshold]_vars

\* a sweep has just removed an idle session and left in the store another
\* that is as idle, with a mutation in flight
C18_Witness ==
    /\ exSwept # {}
    /\ \E id \in StoreIds \ exSwept :
          /\ id \in exInFlight
          /\ exStore[id] # NoSession
          /\ exNow - exStore[id].touched > IdleThreshold

\* C19: for each ordinal attribute, compare(a, b) shows the up arrow exactly
\* when compare(b, a) shows the down arrow, and the other way round; both
\* show a match exactly when both records have the value and the values are
\* equal.
C19_OppositeVerdicts ==
    \A a \in OrdinalAttributes :
        /\ getArrowDirection(cmForward[a]) = "up"
              <=> getArrowDirection(cmBackward[a]) = "down"
        /\ getArrowDirection(cmForward[a]) = "down"
              <=> getArrowDirection(cmBackward[a]) = "up"
        /\ (/\ getValueStatus(cmForward[a]) = "correct"
            /\ getValueStatus(cmBackward[a]) = "correct")
              <=> (/\ cmGuess[a].present
                   /\ cmTarget[a].present
                   /\ cmGuess[a].v = cmTarget[a].v)
        /\ getValueStatus(cmForward[a]) = "correct"
              <=> getValueStatus(cmBackward[a]) = "correct"

\* one comparison with an opposite pair, an equal pair and a missing value
C19_Witness ==
    /\ getArrowDirection(cmForward["year"]) = "up"
    /\ getArrowDirection(cmBackward["year"]) = "down"
    /\ getValueStatus(cmForward["score"]) = "correct"
    /\ getValueStatus(cmBackward["score"]) = "correct"
    /\ ~cmGuess["episodes"].present
    /\ cmTarget["episodes"].present

\* C20: for each ordinal attribute both records have, the page shows the up
\* arrow ("target is higher") for compare(guess, target) exactly when the
\* target's value is greater than the guess's, and the down arrow ("target is
\* lower") exactly when it is smaller.
C20_StatedFromTargetSide ==
    \A a \in OrdinalAttributes :
        /\ getArrowDirection(cmForward[a]) = "up"
              <=> (/\ cmGuess[a].present /\ cmTarget[a].present
                   /\ cmTarget[a].v > cmGuess[a].v)
        /\ getArrowDirection(cmForward[a]) = "down"
              <=> (/\ cmGuess[a].present /\ cmTarget[a].present
                   /\ cmTarget[a].v < cmGuess[a].v)

\* the target is newer and lower rated than the guess
C20_Witness ==
    /\ cmGuess["year"].present /\ cmTarget["year"].present
    /\ cmTarget["year"].v > cmGuess["year"].v
    /\ getArrowDirection(cmForward["year"]) = "up"
    /\ cmGuess["score"].present /\ cmTarget["score"].present
    /\ cmTarget["score"].v < cmGuess["score"].v
    /\ getArrowDirection(cmForward["score"]) = "down"

\* C21: a comparison has a verdict for every ordinal attribute, each with
\* exactly one of the four indicators; when the guess or the target lacks the
\* attribute the verdict is no-match, also against a value of zero.
C21_MissingIsNoMatch ==
    cmForward # NotCompared =>
        /\ DOMAIN cmForward = OrdinalAttributes
        /\ \A a \in OrdinalAttributes :
              /\ Cardinality({i \in DOMAIN cmForward[a] :
                     cmForward[a][i] \in {"check", "up", "down", "cross"}}) = 1
              /\ (~cmGuess[a].present \/ ~cmTarget[a].present)
                    => /\ getValueStatus(cmForward[a]) = "wrong"
                       /\ \E i \in DOMAIN cmForward[a] : cmForward[a][i] = "cross"

\* the guess has no year and the target's year is zero: no-match, while the
\* scores, both there, are compared
C21_Witness ==
    /\ ~cmGuess["year"].present
    /\ cmTarget["year"].present /\ cmTarget["year"].v = 0
    /\ getValueStatus(cmForward["year"]) = "wrong"
    /\ cmGuess["score"].present /\ cmTarget["score"].present
    /\ getValueStatus(cmForward["score"]) # "wrong"

\* C22: the tag verdicts name each tag once; a tag of the guess that is a
\* primary tag of the target is a primary match (green), one that the target
\* has as a secondary tag only is a secondary match (orange), any other tag of
\* the guess is no match (red); a tag neither record has is not in the result.
C22_TagTiers ==
    /\ \A e, f \in cmTagResult : e.name = f.name => e = f
    /\ \A t \in cmTags.guess :
          \E e \in cmTagResult :
              /\ e.name = t
              /\ t \in cmTags.primary
                    => getTagColorClass(e.status) = "text-green-400"
              /\ t \in cmTags.secondary \ cmTags.primary
                    => getTagColorClass(e.status) = "text-orange-400"
              /\ t \notin cmTags.primary \cup cmTags.secondary
                    => getTagColorClass(e.status) = "text-red-400"
    /\ \A t \in Tags \ (cmTags.guess \cup cmTags.primary \cup cmTags.secondary) :
          \A e \in cmTagResult : e.name # t

\* one guess with a tag of each verdict, the first in both tiers of the
\* target, and no tag left for the result to make up
C22_Witness ==
    /\ cmTags.guess = Tags
    /\ cmTags.primary = {"t1"}
    /\ cmTags.secondary = {"t1", "t2"}
    /\ {e.status : e \in cmTagResult} = {"correct", "secondary", "wrong"}

\* C23: a step that changes the session of one card leaves the sessions of
\* the other cards as they were; a complete session is won exactly when its
\* own two fields match its own target; and the complete screen shows each
\* card the verdict of its own session, and the overall win exactly when the
\* session of every card is won.
C23_CardsIndependent ==
    /\ [](/\ \A id \in CardIds :
              (fcSessions[id] # NoSession /\ fcSessions[id].is_complete)
              => (fcSessions[id].is_won
                    <=> /\ Normalize(fcSessions[id].guess.characterName)
                             = Normalize(fcSessions[id].target.characterName)
                        /\ Normalize(fcSessions[id].guess.animeName)
                             = Normalize(fcSessions[id].target.animeTitle))
          /\ (fcPage.gameState # Null /\ fcPage.gameState.isComplete)
              => /\ \A i \in CardIds :
                       LET card == fcPage.gameState.characters[i]
                       IN  /\ card.result # None
                           /\ card.result.isWon = fcSessions[card.gameId].is_won
                 /\ fcPage.gameState.isWon
                       <=> \A i \in CardIds :
                             fcSessions[fcPage.gameState.characters[i].gameId].is_won)
    /\ [][\A i, j \in CardIds :
            (i # j /\ fcSessions[i] # NoSession /\ fcSessions'[i] # fcSessions[i])
            => fcSessions'[j] = fcSessions[j]]_vars

\* the complete screen after one card was won and another lost: no overall win
C23_Witness ==
    /\ fcPage.gameState # Null
    /\ fcPage.gameState.isComplete
    /\ ~fcPage.gameState.isWon
    /\ \E i, j \in CardIds :
          /\ fcPage.gameState.characters[i].result.isWon
          /\ ~fcPage.gameState.characters[j].result.isWon
          /\ fcSessions[i].is_won
          /\ ~fcSessions[j].is_won

\* C24: the id a start answers with was not the id of a stored game before
\* the start: no start stores its game over a game that is in the store.
C24_StartNeverOverwrites ==
    [][(/\ Len(handlers') < Len(handlers)
        /\ lastResponse'.op = "start"
        /\ lastResponse'.status = 200)
       => games[lastResponse'.game_id] = NoRef]_vars

\* C25: when the page's guess is answered as wrong and fewer than four guesses
\* have been made, the page shows the game still open, with one more
\* screenshot revealed than before the guess.
C25_WrongGuessRevealsScreenshot ==
    [][(/\ gaCall.op = "guess"
        /\ gaCall' = NoCall
        /\ gaResponse'.response.ok
        /\ ~gaResponse'.response.is_won
        /\ gaPage.gameState # Null
        /\ gaPage'.gameState # gaPage.gameState
        /\ Len(gaPage.gameState.guesses) < GaImageStages - 1)
       => /\ ~gaPage'.gameState.isComplete
          /\ gaPage'.gameState.revealedStages = gaPage.gameState.revealedStages + 1]_vars

\* C26: a guess on an active session is accepted at either stage and
\* completes it, won exactly when the name is normalized-equal to the title of
\* the target's anime, with the stage left as it was; a guess on a complete
\* session is turned away and changes nothing; the page that asked shows the
\* game complete with the verdict of the answer.
C26_GuessAtAnyStageCompletes ==
    [][/\ \A id \in SessionIds :
            (/\ opSessions[id] # NoSession
             /\ opResponse' # opResponse
             /\ opResponse'.request.op = "guess"
             /\ opResponse'.request.gameId = id)
            => IF opSessions[id].is_complete
               THEN /\ ~opResponse'.response.ok
                    /\ opSessions' = opSessions
               ELSE /\ opResponse'.response.ok
                    /\ opSessions'[id].is_complete
                    /\ opSessions'[id].current_stage = opSessions[id].current_stage
                    /\ opSessions'[id].is_won
                          <=> Normalize(opResponse'.request.animeName)
                                = Normalize(opSessions[id].target.title)
                    /\ opResponse'.response.is_won = opSessions'[id].is_won
       /\ (/\ opCall.op = "guess"
           /\ opCall' = NoCall
           /\ opResponse'.response.ok
           /\ opPage'.gameState # opPage.gameState)
          => /\ opPage'.gameState.isComplete
             /\ opPage'.gameState.isWon = opResponse'.response.is_won]_vars

\* the page guessed after the video was revealed, with the title typed in
\* another case and with a blank in front, and shows the game won
C26_Witness ==
    /\ opResponse.request.op = "guess"
    /\ opResponse.response.ok
    /\ opResponse.request.animeName # opSessions[opResponse.request.gameId].target.title
    /\ opSessions[opResponse.request.gameId].current_stage = OpMaxStage
    /\ opSessions[opResponse.request.gameId].is_won
    /\ OpCompleteScreen(opPage)
    /\ opPage.gameState.isWon
    /\ opPage.gameState.currentStage = OpMaxStage

\* what a client can tell of the suspended requests: their kind and name
Arrivals(hs) ==
    [i \in DOMAIN hs |->
        IF hs[i].op = "guess" THEN <<"guess", hs[i].anime_name>> ELSE <<"start">>]

\* C27: within one game the guesses take effect in arrival order: a guess is
\* applied to a game only when no guess that arrived before it on the same
\* game is still waiting, so the guess list is the arrival sequence.
C27_AppliedInArrivalOrder ==
    [][(/\ Len(handlers') < Len(handlers)
        /\ lastResponse'.op = "guess"
        /\ lastResponse'.status = 200)
       => \E i \in DOMAIN handlers :
             /\ handlers[i].op = "guess"
             /\ Arrivals(handlers') = Arrivals(RemoveAt(handlers, i))
             /\ \A j \in 1..(i - 1) :
                   handlers[j].op = "guess" => handlers[j].game # handlers[i].game]_vars

\* what a stage request must leave alone in a session
GaSessionFrame(session) ==
    <<session.target, session.attempts_remaining, session.guesses,
      session.is_complete, session.is_won>>

\* what a stage click must leave alone on the page
GaPageFrame(gameState) ==
    <<gameState.gameId, gameState.attemptsRemaining, gameState.guesses,
      gameState.isComplete, gameState.isWon, gameState.target,
      gameState.allScreenshots, gameState.totalStages>>

\* C28: revealStage on an active session with a stage left moves the stage
\* pointer up by exactly one; navigateStage(n) to a revealed stage changes
\* the displayed stage to n and nothing else; neither changes the attempts,
\* the guess list or the completion and outcome flags, in the session or on
\* the page whose click it was, and no other session is touched.
C28_StageRequestsFrame ==
    [][/\ \A id \in GaLive :
            (/\ gaResponse' # gaResponse
             /\ gaResponse'.request.op \in {"reveal", "navigate"}
             /\ gaResponse'.request.gameId = id
             /\ ~gaSessions[id].is_complete)
            => /\ gaSessions'[id] # NoSession
               /\ GaSessionFrame(gaSessions'[id]) = GaSessionFrame(gaSessions[id])
               /\ \A other \in SessionIds \ {id} : gaSessions'[other] = gaSessions[other]
               /\ IF gaResponse'.request.op = "reveal"
                  THEN gaSessions[id].revealed_stages < GaTotalStages
                          => /\ gaSessions'[id].revealed_stages
                                   = gaSessions[id].revealed_stages + 1
                             /\ gaResponse'.response.revealed_stages
                                   = gaSessions[id].revealed_stages + 1
                  ELSE /\ gaSessions'[id].revealed_stages = gaSessions[id].revealed_stages
                       /\ gaSessions'[id].name_hint_revealed
                             = gaSessions[id].name_hint_revealed
                       /\ gaResponse'.request.stage <= gaSessions[id].revealed_stages
                             => /\ gaResponse'.response.ok
                                /\ gaSessions'[id].current_stage = gaResponse'.request.stage
       /\ (/\ gaCall.op \in {"reveal", "navigate"}
           /\ gaCall' = NoCall
           /\ gaPage.gameState # Null)
          => /\ gaPage'.gameState # Null
             /\ GaPageFrame(gaPage'.gameState) = GaPageFrame(gaPage.gameState)]_vars

\* the page, with three stages revealed, went back to the first: the session
\* shows stage 1 of 3, and the attempt is still there on both sides
C28_Witness ==
    /\ gaResponse.request.op = "navigate"
    /\ gaResponse.response.ok
    /\ gaCall = NoCall
    /\ gaPage.gameState # Null
    /\ gaPage.gameState.revealedStages = 3
    /\ gaPage.gameState.currentStage = 1
    /\ gaPage.gameState.attemptsRemaining = 1
    /\ gaPage.gameState.guesses = <<>>
    /\ ~gaPage.gameState.isComplete
    /\ gaSessions[gaPage.gameState.gameId].revealed_stages = 3
    /\ gaSessions[gaPage.gameState.gameId].current_stage = 1
    /\ gaSessions[gaPage.gameState.gameId].attempts_remaining = 1

\* what the caller of sample() can see
SmOutcomes == {Pending, SamplingExhausted} \cup { Returned(c) : c \in Candidates }

\* an iteration on a candidate whose lookup times out or comes back empty
SmFailedDraw ==
    /\ smPhase = "running"
    /\ smAttempts' # smAttempts
    /\ \E c \in smDown \ smRejected :
          smRejected' = smRejected \cup {c} \/ smResult' \notin SmOutcomes

\* C29: a draw whose catalog or asset call times out or comes back empty
\* counts as exactly one failed attempt; the sampler goes on while attempts
\* remain and ends with SamplingExhausted at the ceiling; the caller sees a
\* candidate or the sampling failure, never the error of the network layer.
C29_FailedCallIsOneAttempt ==
    /\ [](smResult \in SmOutcomes)
    /\ [][SmFailedDraw =>
            /\ smAttempts' = smAttempts + 1
            /\ IF smAttempts + 1 < AttemptCeiling
               THEN smPhase' = "running" /\ smResult' = Pending
               ELSE smPhase' = "returned" /\ smResult' = SamplingExhausted]_vars

\* an image game: two candidates with enough images were drawn while their
\* lookups failed, and the third draw returned a candidate
C29_Witness ==
    /\ smGameType = "staged-reveal"
    /\ smResult.tag = "Candidate"
    /\ smAttempts = 3
    /\ Cardinality({ c \in smRejected \cap smDown :
                        AssetContract(smGameType, Assets(c)) }) = 2

\* the images of the stages 1..3 of a kind
ScEarly(kind) ==
    { scStages[i].index : i \in { j \in 1..(GaImageStages - 1) : scStages[j].kind = kind } }

ScStagesWellMade ==
    scStages # NotComposed =>
        IF scAssets.stills + scAssets.backdrops < 4
        THEN scStages = NotPlayable
        ELSE /\ scStages # NotPlayable
             /\ Len(scStages) = 4
             /\ \A i, j \in 1..4 : scStages[i] = scStages[j] => i = j
             /\ \A i \in 1..4 :
                   /\ scStages[i].kind \in {"still", "backdrop"}
                   /\ scStages[i].index >= 1
                   /\ scStages[i].kind = "still" => scStages[i].index <= scAssets.stills
                   /\ scStages[i].kind = "backdrop"
                         => scStages[i].index <= scAssets.backdrops
             /\ (\E i \in 1..3 : scStages[i].kind = "backdrop")
                   => ScEarly("still") = 1..scAssets.stills
             /\ scStages[4].kind = "still"
                   => ScEarly("backdrop") = 1..scAssets.backdrops

\* C30: the four image stages are a function of the asset list: with fewer
\* than 4 images the target is not playable; otherwise there are four
\* distinct images of the list, a backdrop stands at one of the stages 1..3
\* only when every still is used there, the fourth is a still only when no
\* backdrop is left, and the same list gives the same stages again.
C30_StagesFromAssets ==
    /\ [](ScStagesWellMade)
    /\ [][(scStages # NotComposed /\ scAssets' = scAssets)
             => scStages' = scStages]_vars

\* one still and three backdrops: the still, two backdrops, and the third
\* backdrop last
C30_Witness ==
    /\ scAssets = [stills |-> 1, backdrops |-> 3]
    /\ scStages = <<Still(1), Backdrop(1), Backdrop(2), Backdrop(3)>>

\* ------------------------------------------------------------------------
\* Properties of the pages
\* ------------------------------------------------------------------------
\* a page sends a request of its own
GaIssues == gaCall' # NoCall /\ gaCall' # gaCall
OpIssues == opCall' # NoCall /\ opCall' # opCall

\* the request a page awaits has ended
GaEnds == gaCall # NoCall /\ gaCall' = NoCall
OpEnds == opCall # NoCall /\ opCall' = NoCall

\* C31: a page issues a start, guess, reveal, navigate or give-up request
\* only while none is in flight and isLoading is false, and isLoading is true
\* exactly while its request is in flight: it is false again when the request
\* has ended, answered or failed.
C31_OneRequestInFlight ==
    /\ [](/\ gaPage.isLoading <=> gaCall # NoCall
          /\ opPage.isLoading <=> opCall # NoCall)
    /\ [][/\ GaIssues => (gaCall = NoCall /\ ~gaPage.isLoading /\ gaPage'.isLoading)
          /\ OpIssues => (opCall = NoCall /\ ~opPage.isLoading /\ opPage'.isLoading)
          /\ GaEnds => ~gaPage'.isLoading
          /\ OpEnds => ~opPage'.isLoading]_vars

\* a navigate request of the Guess Anime page failed: the page shows the
\* error, its game is still on, and isLoading is false again
C31_Witness ==
    /\ gaResponse.request.op = "navigate"
    /\ gaCall = NoCall
    /\ ~gaPage.isLoading
    /\ gaPage.error = Failed
    /\ GaActiveScreen(gaPage)
    /\ gaPage.gameState.revealedStages >= 2

GcIssues == gcCall' # NoCall /\ gcCall' # gcCall

\* the page's copy of the game says it is complete
PageComplete(page) == page.gameState # Null /\ page.gameState.isComplete

\* C32: a page whose game state has isComplete true issues no guess, reveal,
\* navigate or give-up request: every request it sends for a game is sent
\* while its copy of that game is not complete; a request it sends then is a
\* start, and the one change the page makes to a complete game is to drop it
\* for a new one.
C32_CompletePageIsSilent ==
    [][/\ GaIssues => IF gaCall'.op = "start" THEN gaPage.gameState = Null
                      ELSE /\ gaPage.gameState # Null
                           /\ ~gaPage.gameState.isComplete
                           /\ gaCall'.gameId = gaPage.gameState.gameId
       /\ OpIssues => IF opCall'.op = "start" THEN opPage.gameState = Null
                      ELSE /\ opPage.gameState # Null
                           /\ ~opPage.gameState.isComplete
                           /\ opCall'.gameId = opPage.gameState.gameId
       /\ GcIssues => IF gcCall'.op = "start" THEN gcPage.gameState = Null
                      ELSE /\ gcPage.gameState # Null
                           /\ ~gcPage.gameState.isComplete
                           /\ gcCall'.gameId = gcPage.gameState.gameId
       /\ (PageComplete(gaPage) /\ gaPage' # gaPage) => gaPage'.gameState = Null
       /\ (PageComplete(opPage) /\ opPage' # opPage) => opPage'.gameState = Null
       /\ (PageComplete(gcPage) /\ gcPage' # gcPage) => gcPage'.gameState = Null]_vars

\* the Guess Anime page lost its game with a wrong guess and then dropped
\* it with Play Again: it is back on the start screen
C32_Witness ==
    /\ gaCall = NoCall
    /\ gaPage.gameState = Null
    /\ ~gaPage.isLoading
    /\ gaResponse.request.op = "guess"
    /\ gaResponse.response.ok
    /\ ~gaResponse.response.is_won
    /\ Len(gaSessions[gaResponse.request.gameId].guesses) = 1

\* C33: in the four-card page each card's session is sent at most one guess
\* request per game, also when a submit failed part-way and the player
\* submits again, and a failed submit leaves the page's game state as it was.
C33_OneGuessPerCard ==
    /\ [](\A id \in CardIds : fcSent[id] <= 1)
    /\ [][(fcLoop # NoCall /\ fcLoop' = NoCall /\ fcPage'.error = Failed)
            => fcPage'.gameState = fcPage.gameState]_vars

\* ------------------------------------------------------------------------
\* Properties of SearchInput
\* ------------------------------------------------------------------------
\* C34: the suggestions shown come from the most recently issued search: the
\* results of a search are never applied after those of a search issued
\* later.
C34_NewestSearchWins ==
    [][siShown' # siShown => siShown' > siShown]_vars

\* C37: after a suggestion was selected the dropdown is closed and stays
\* closed until the user next edits the input.
C37_ClosedAfterSelect ==
    siSelected => ~siIsOpen

SiIndexInRange ==
    siSuggestions # <<>> =>
        /\ siHighlightIndex >= -1
        /\ siHighlightIndex <= Len(siSuggestions) - 1

SiKeysKeepRange ==
    /\ siEvent'.e \in {"ArrowDown", "ArrowUp"} =>
          /\ siSuggestions' = siSuggestions
          /\ siHighlightIndex' >= -1
          /\ siHighlightIndex' <= Len(siSuggestions) - 1
          /\ siHighlightIndex' - siHighlightIndex \in {-1, 0, 1}
    /\ siEvent'.e = "Enter" =>
          /\ siIsOpen
          /\ siHighlightIndex >= 0
          /\ siHighlightIndex <= Len(siSuggestions) - 1
          /\ siValue' = siSuggestions[siHighlightIndex + 1].value
          /\ siEvent'.detail = siValue'

\* C38: whenever the suggestion list is not empty the highlighted index lies
\* between -1 and the number of suggestions minus 1; ArrowDown and ArrowUp
\* move it by at most one and never outside that range; Enter selects a
\* suggestion only with the dropdown open and the index on an existing
\* suggestion, and selects that one.
C38_HighlightInRange == [](SiIndexInRange) /\ [][SiKeysKeepRange]_vars

\* with two suggestions shown the highlight was moved to the second and
\* Enter selected it
C38_Witness ==
    /\ siEvent.e = "Enter"
    /\ siHighlightIndex = 1
    /\ siValue = siEvent.detail
    /\ siSelected
    /\ ~siIsOpen

\* the stage boxes of the Guess Anime page that answer a click
GaClickableStages == { stage \in 1..GaTotalStages : ENABLED GaHandleStageClick(stage) }

GaStageBoxes ==
    \A stage \in GaClickableStages :
        /\ gaPage.gameState # Null
        /\ ~gaPage.gameState.isComplete
        /\ gaCall = NoCall
        /\ stage <= gaPage.gameState.revealedStages + 1

GaStageRequests ==
    (GaIssues /\ gaCall'.op \in {"reveal", "navigate"}) =>
        /\ gaPage.gameState # Null
        /\ ~gaPage.gameState.isComplete
        /\ gaCall'.gameId = gaPage.gameState.gameId
        /\ IF gaCall'.op = "reveal"
           THEN /\ gaPage.gameState.revealedStages < GaTotalStages
                /\ gaPage.gameState.revealedStages + 1 \in GaClickableStages
           ELSE /\ gaCall'.stage >= 1
                /\ gaCall'.stage <= gaPage.gameState.revealedStages
                /\ gaCall'.stage \in GaClickableStages

\* C35: the Guess Anime page asks for revealStage only by the box of the
\* stage right after the last revealed one and for navigateStage(n) only
\* with n already revealed; no box two or more stages ahead answers a click,
\* no reveal is asked for with all five stages revealed, and no stage
\* request is sent for a complete game.
C35_StageRequestsOneAhead == [](GaStageBoxes) /\ [][GaStageRequests]_vars

\* with four stages revealed the page asked for the fifth, the name hint
C35_Witness ==
    /\ gaCall.op = "reveal"
    /\ gaPage.gameState # Null
    /\ gaPage.gameState.revealedStages = GaTotalStages - 1
    /\ gaPage.isLoading

\* ------------------------------------------------------------------------
\* Properties of the Anidle backend: the outcome
\* ------------------------------------------------------------------------
WonImpliesComplete ==
    \A r \in LiveRefs : heap[r].is_won => heap[r].is_complete

OutcomeIsFinal ==
    \A g \in GameIds :
        (/\ games[g] # NoRef
         /\ heap[games[g]].is_complete
         /\ lastResponse'.op # "start")
        => /\ games'[g] # NoRef
           /\ heap'[games'[g]].is_complete
           /\ heap'[games'[g]].is_won = heap[games[g]].is_won

\* C36: in every state of a game won implies complete, and once a game is
\* complete its outcome, won or lost, never changes.
C36_OutcomeIsFinal == [](WonImpliesComplete) /\ [][OutcomeIsFinal]_vars

\* ------------------------------------------------------------------------
\* Properties of proxyMediaUrl
\* ------------------------------------------------------------------------
\* C39: proxyMediaUrl is total and idempotent: for every input, null,
\* undefined and the empty string included, it returns a string, applying it
\* to its result returns that result, and URLs already proxied, data URLs and
\* Discord CDN URLs come back unchanged.
C39_TotalIdempotent ==
    pxUrl # NotRendered =>
        /\ pxOnce # URIError
        /\ pxOnce \notin {Null, None, NotRendered}
        /\ pxTwice = pxOnce
        /\ pxUrl \in {Null, None, Str(<<>>)} => pxOnce = Str(<<>>)
        /\ (/\ pxUrl \notin {Null, None}
            /\ \/ startsWith(pxUrl.str, ProxyPrefix)
               \/ startsWith(pxUrl.str, DataPrefix)
               \/ includes(pxUrl.str, DiscordCdn)
               \/ includes(pxUrl.str, DiscordMedia))
           => pxOnce = pxUrl

====
